---- MODULE Spec2Model ----
(***************************************************************************)
(* Account-state synchronisation of the binance client: the account info   *)
(* store (binance.go) and the websocket account data worker               *)
(* (binance_ws_worker.go): supervisor loop, stream reader, dispatcher and  *)
(* stale-order watchdog.                                                   *)
(***************************************************************************)
EXTENDS Integers, Sequences, FiniteSets, TLC

\* ------------------------------------------------------------------ bounds
\* number of bootstraps (SetData calls) the supervisor loop performs
MaxSessions == 2
\* number of frames read from the transport (Spec)
MaxReads == 2
\* capacity of the messages channel (256 in the program, scaled down)
ChanCap == 2
\* number of orders pushed onto WSOrderTracker
MaxPush == 1
\* BContext.OrderTrackMillis, the configured age at which a tracked order is stale:
\* the unit of the clock
OrderTrackMillis == 1
\* the clock runs until an order pushed one unit after the start is stale
MaxTime == OrderTrackMillis + 1
\* number of direct calls of the store API in SpecStore
MaxCalls == 3
\* number of KeepListenKeyAlive calls the keepalive goroutines issue
MaxKeepAlive == 2

\* ------------------------------------------------------------ decimal strings
\* A decimal string is <<ok, m, s>>: ok = FALSE is a string that is no decimal,
\* otherwise the string writes the integer m with s fractional digits
\* ("10.0" is <<TRUE, 100, 1>>, "11.5" is <<TRUE, 115, 1>>, "10" is <<TRUE, 10, 0>>).
BadStr == <<FALSE, 0, 0>>

Dec(m, s) == <<TRUE, m, s>>

RECURSIVE Pow10(_)
Pow10(n) == IF n = 0 THEN 1 ELSE 10 * Pow10(n - 1)

\* decimal.NewFromString: an error for a malformed string, else value m * 10^-s
NewFromString(str) ==
    IF str[1] THEN [err |-> FALSE, m |-> str[2], s |-> str[3]]
    ELSE [err |-> TRUE, m |-> 0, s |-> 0]

\* decimal.Decimal.Add: rescale both operands to the larger scale and add
DecAdd(a, b) ==
    LET s == IF a.s > b.s THEN a.s ELSE b.s
    IN  [err |-> FALSE, m |-> a.m * Pow10(s - a.s) + b.m * Pow10(s - b.s), s |-> s]

\* decimal.Decimal.String: the shortest form, trailing fractional zeros removed
RECURSIVE DecString(_)
DecString(d) ==
    IF d.s > 0 /\ d.m % 10 = 0
    THEN DecString([d EXCEPT !.m = d.m \div 10, !.s = d.s - 1])
    ELSE <<TRUE, d.m, d.s>>

\* ------------------------------------------------------------------- orders
Symbols == {"BNBUSDT"}
OrderIDs == {1, 2}
Assets == {"BNB", "USDT"}

\* common.MakeCompletedOrderID(symbol, id): the key of an order in the store,
\* in the completed-order cache and in the tracking list
MakeCompletedOrderID(symbol, id) == <<symbol, id>>

\* a key for the REST open orders that UpdateOrder does not compute
UniqOrder_Tagged(symbol, id) == <<symbol, id, "open">>

\* UniqOrder(symbol, id): the key initWSSession gives a REST open order
UniqOrder(symbol, id) == <<symbol, id>>

Keys == {MakeCompletedOrderID(s, i) : s \in Symbols, i \in OrderIDs}

\* &OpenOrder{}: the zero value
EmptyOrder ==
    [Symbol |-> "", OrderID |-> 0, Status |-> "", ExecutedQty |-> BadStr,
     UpdateTime |-> 0, OrigQuoteOrderQty |-> "" ]

\* not CANCELED/FILLED keeps the order open
IsTerminal_OnlyFilled(status) == status = "FILLED"

IsTerminal(status) == status = "CANCELED" \/ status = "FILLED"

MapRemove(map, key) == [k \in DOMAIN map \ {key} |-> map[k]]

\* the field assignments of UpdateOrder
AssignOrder(order, o) ==
    [order EXCEPT !.Symbol = o.s, !.OrderID = o.i, !.Status = o.X,
                  !.ExecutedQty = o.z, !.UpdateTime = o.E, !.OrigQuoteOrderQty = ""]

UpdateOrder_NoDelete(info, o) ==
    LET orderID == MakeCompletedOrderID(o.s, o.i)
        found == IF orderID \in DOMAIN info.OpenOrder
                 THEN info.OpenOrder
                 ELSE info.OpenOrder @@ (orderID :> EmptyOrder)
        order == AssignOrder(found[orderID], o)
    IN  [info |-> [info EXCEPT !.OpenOrder = [found EXCEPT ![orderID] = order]],
         order |-> order, removed |-> IsTerminal(o.X), err |-> FALSE]

\* a report older than the stored record is not applied
UpdateOrder_KeepNewer(info, o) ==
    LET orderID == MakeCompletedOrderID(o.s, o.i)
        found == IF orderID \in DOMAIN info.OpenOrder
                 THEN info.OpenOrder
                 ELSE info.OpenOrder @@ (orderID :> EmptyOrder)
        order == IF found[orderID].UpdateTime > o.E THEN found[orderID]
                 ELSE AssignOrder(found[orderID], o)
        assigned == [found EXCEPT ![orderID] = order]
    IN  IF IsTerminal(o.X)
        THEN [info |-> [info EXCEPT !.OpenOrder = MapRemove(assigned, orderID)],
              order |-> order, removed |-> TRUE, err |-> FALSE]
        ELSE [info |-> [info EXCEPT !.OpenOrder = assigned],
              order |-> order, removed |-> FALSE, err |-> FALSE]

\* the delete is skipped for an order the map did not hold before the call
UpdateOrder_DeleteFoundOnly(info, o) ==
    LET orderID == MakeCompletedOrderID(o.s, o.i)
        was == orderID \in DOMAIN info.OpenOrder
        found == IF was THEN info.OpenOrder
                 ELSE info.OpenOrder @@ (orderID :> EmptyOrder)
        order == AssignOrder(found[orderID], o)
        assigned == [found EXCEPT ![orderID] = order]
    IN  IF IsTerminal(o.X)
        THEN [info |-> [info EXCEPT !.OpenOrder =
                                       IF was THEN MapRemove(assigned, orderID) ELSE assigned],
              order |-> order, removed |-> TRUE, err |-> FALSE]
        ELSE [info |-> [info EXCEPT !.OpenOrder = assigned],
              order |-> order, removed |-> FALSE, err |-> FALSE]

\* BAccountInfoStore.UpdateOrder(o): (order, removed, err) and the store after it
UpdateOrder(info, o) ==
    LET orderID == MakeCompletedOrderID(o.s, o.i)
        found == IF orderID \in DOMAIN info.OpenOrder
                 THEN info.OpenOrder
                 ELSE info.OpenOrder @@ (orderID :> EmptyOrder)
        order == AssignOrder(found[orderID], o)
        assigned == [found EXCEPT ![orderID] = order]
    IN  IF IsTerminal(o.X)
        THEN [info |-> [info EXCEPT !.OpenOrder = MapRemove(assigned, orderID)],
              order |-> order, removed |-> TRUE, err |-> FALSE]
        ELSE [info |-> [info EXCEPT !.OpenOrder = assigned],
              order |-> order, removed |-> FALSE, err |-> FALSE]

\* BAccountInfoStore.OpenOrders(): the orders of the map
OpenOrders(info) == {info.OpenOrder[k] : k \in DOMAIN info.OpenOrder}

\* the order id is not compared
OrderStatus_BySymbol(info, symbol, id) ==
    LET hits == {o \in OpenOrders(info) : o.Symbol = symbol}
    IN  IF hits = {} THEN [err |-> TRUE, order |-> EmptyOrder]
        ELSE [err |-> FALSE, order |-> CHOOSE o \in hits : TRUE]

\* BAccountInfoStore.OrderStatus(symbol, id)
OrderStatus(info, symbol, id) ==
    LET hits == {o \in OpenOrders(info) : o.Symbol = symbol /\ o.OrderID = id}
    IN  IF hits = {} THEN [err |-> TRUE, order |-> EmptyOrder]
        ELSE [err |-> FALSE, order |-> CHOOSE o \in hits : TRUE]

\* ----------------------------------------------------------------- balances
\* index of the first balance of the asset, 0 when there is none
IndexOfAsset(balances, asset) ==
    LET hits == {i \in 1..Len(balances) : balances[i].Asset = asset}
    IN  IF hits = {} THEN 0 ELSE CHOOSE i \in hits : \A j \in hits : i <= j

\* an asset that is not in the list is added with the delta as its free amount
UpdateBalanceDelta_Insert(info, bu) ==
    LET index == IndexOfAsset(info.Balances, bu.a)
        delta == NewFromString(bu.d)
        oldBalance == NewFromString(info.Balances[index].Free)
    IN  IF index = 0
        THEN IF delta.err THEN [info |-> info, err |-> TRUE]
             ELSE [info |-> [info EXCEPT !.Balances =
                                Append(@, [Asset |-> bu.a, Free |-> DecString(delta),
                                           Locked |-> Dec(0, 0)])],
                   err |-> FALSE]
        ELSE IF delta.err THEN [info |-> info, err |-> TRUE]
        ELSE IF oldBalance.err THEN [info |-> info, err |-> TRUE]
        ELSE [info |-> [info EXCEPT !.Balances[index].Free =
                                        DecString(DecAdd(oldBalance, delta))],
              err |-> FALSE]

\* the free amount becomes the delta, the old amount is not added
UpdateBalanceDelta_SetDelta(info, bu) ==
    LET index == IndexOfAsset(info.Balances, bu.a)
        delta == NewFromString(bu.d)
        oldBalance == NewFromString(info.Balances[index].Free)
    IN  IF index = 0 THEN [info |-> info, err |-> FALSE]
        ELSE IF delta.err THEN [info |-> info, err |-> TRUE]
        ELSE IF oldBalance.err THEN [info |-> info, err |-> TRUE]
        ELSE [info |-> [info EXCEPT !.Balances[index].Free = DecString(delta)],
              err |-> FALSE]

\* BAccountInfoStore.UpdateBalanceDelta(balanceUpdate): err and the store after it
UpdateBalanceDelta(info, bu) ==
    LET index == IndexOfAsset(info.Balances, bu.a)
        delta == NewFromString(bu.d)
        oldBalance == NewFromString(info.Balances[index].Free)
    IN  IF index = 0 THEN [info |-> info, err |-> FALSE]
        ELSE IF delta.err THEN [info |-> info, err |-> TRUE]
        ELSE IF oldBalance.err THEN [info |-> info, err |-> TRUE]
        ELSE [info |-> [info EXCEPT !.Balances[index].Free =
                                        DecString(DecAdd(oldBalance, delta))],
              err |-> FALSE]

\* exist is never set: every tuple is appended
UpdateOneBalance_Append(balances, tokenBalance) ==
    Append(balances, [Asset |-> tokenBalance.a, Free |-> tokenBalance.f,
                      Locked |-> tokenBalance.l])

\* one iteration of the loop of UpdateBalance
UpdateOneBalance(balances, tokenBalance) ==
    LET index == IndexOfAsset(balances, tokenBalance.a)
    IN  IF index # 0
        THEN [balances EXCEPT ![index].Free = tokenBalance.f,
                              ![index].Locked = tokenBalance.l]
        ELSE Append(balances, [Asset |-> tokenBalance.a, Free |-> tokenBalance.f,
                               Locked |-> tokenBalance.l])

RECURSIVE UpdateBalances(_, _)
UpdateBalances(balances, payload) ==
    IF payload = <<>> THEN balances
    ELSE UpdateBalances(UpdateOneBalance(balances, Head(payload)), Tail(payload))

\* BAccountInfoStore.UpdateBalance(balance): err and the store after it
UpdateBalance(info, payload) ==
    [info |-> [info EXCEPT !.Balances = UpdateBalances(info.Balances, payload)],
     err |-> FALSE]

\* ------------------------------------------------------------------- frames
\* A frame is what one ReadMessage returns. e is the value of its "e" field
\* (NoE: the field is missing or no string); ok says whether the rest of the
\* frame parses (json.Unmarshal, jsonparser.Get "B", the fields parseAccountOrder
\* requires).
NoE == "<none>"
outboundAccountPosition == "outboundAccountPosition"
balanceUpdate == "balanceUpdate"
executionReport == "executionReport"

PositionFrame(ok, B) == [e |-> outboundAccountPosition, ok |-> ok, B |-> B]
DeltaFrame(ok, a, d) == [e |-> balanceUpdate, ok |-> ok, a |-> a, d |-> d]
ExecFrame(ok, s, i, X, z, E) ==
    [e |-> executionReport, ok |-> ok, s |-> s, i |-> i, X |-> X, z |-> z, E |-> E]

\* the frames the exchange sends in the model
FrameSet ==
    { [e |-> NoE, ok |-> FALSE],
      [e |-> "listStatus", ok |-> TRUE],
      PositionFrame(TRUE, << [a |-> "USDT", f |-> Dec(16, 1), l |-> Dec(0, 0)] >>),
      DeltaFrame(TRUE, "BNB", Dec(15, 1)),
      ExecFrame(TRUE, "BNBUSDT", 1, "NEW", Dec(0, 0), 1),
      ExecFrame(TRUE, "BNBUSDT", 1, "FILLED", Dec(1, 0), 2) }

\* what the REST endpoints answer in the model
RestBalances == { << [Asset |-> "BNB", Free |-> Dec(100, 1), Locked |-> Dec(0, 0)] >> }

RestOrder(s, i, X) ==
    [Symbol |-> s, OrderID |-> i, Status |-> X, ExecutedQty |-> Dec(0, 0),
     UpdateTime |-> 0, OrigQuoteOrderQty |-> "0.0"]

RestOpenOrders == { <<>>, << RestOrder("BNBUSDT", 1, "NEW") >> }

EmptyMap == [k \in {} |-> EmptyOrder]

\* the loop of initWSSession that keys the REST orders
RECURSIVE OrdersToMap(_)
OrdersToMap(os) ==
    IF os = <<>> THEN EmptyMap
    ELSE (UniqOrder(Head(os).Symbol, Head(os).OrderID) :> Head(os)) @@ OrdersToMap(Tail(os))

EmptyInfo == [Balances |-> <<>>, OpenOrder |-> EmptyMap]

\* the store after the dispatcher has handled frame f on store info: a frame that
\* does not parse, or that the store rejects, changes nothing
ApplyFrame(info, f) ==
    IF f.e = outboundAccountPosition /\ f.ok THEN UpdateBalance(info, f.B).info
    ELSE IF f.e = balanceUpdate /\ f.ok THEN UpdateBalanceDelta(info, f).info
    ELSE IF f.e = executionReport /\ f.ok THEN UpdateOrder(info, f).info
    ELSE info

\* ---------------------------------------------------------------- the state
VARIABLES
    AccountInfo,      \* BAccountInfoStore.AccountInfo: [Balances, OpenOrder]
    CompletedOrders,  \* BContext.CompletedOrders: key -> order
    WSOrderTracker,   \* BContext.WSOrderTracker: entries [id, ts, uid], oldest first
    now,              \* common.CurrentMillis()
    messages,         \* the messages channel of Run: [m, epoch, seq]
    supPc,            \* where the supervisor goroutine of Run is
    accountState,     \* initWSSession: accountState
    orders,           \* initWSSession: orders
    readM,            \* subscribeDataStream: m, the frame just read
    wsConn,           \* session -> "none" | "open" | "closed"
    quit,             \* session -> 0 | 1
    tmActive,         \* subscribeDataStream: tm is running
    tmC,              \* number of values in tm.C
    wdPc,             \* session -> where its checkOrder goroutine is
    wdFront,          \* session -> uid of the entry checkOrder peeked
    dispPc,           \* where processMessages is
    dispM,            \* processMessages: m, with its tags
    dispOrder,        \* processMessages: order returned by UpdateOrder
    epoch,            \* history: number of SetData calls of initWSSession
    nRead,            \* history: number of frames read from the transport
    ideal,            \* history: last snapshot with every frame read since applied
    lastSeq,          \* history: seq tag of the last frame the dispatcher received
    seenStatus,       \* history: key -> the statuses of the reports dispatched for it
    closures,         \* history: uid -> open connections checkOrder closed for the entry
    pushed,           \* history: the entries pushed onto the tracker, by uid
    dropped,          \* history: number of frames dropped by the push timeout
    restOk,           \* history: the REST calls of this initWSSession that succeeded
    nCalls,           \* SpecStore: number of direct store calls
    lastCall,         \* SpecStore: the last direct store call and what it returned
    kaActive,         \* session -> the ticker of keepAliveKey is running
    kaC,              \* session -> number of ticks in the ticker's channel t.C
    kaPc,             \* session -> where the goroutine of keepAliveKey is
    kaLog,            \* history: session -> outcomes of its KeepListenKeyAlive calls
    mu,               \* BAccountInfoStore.mu: "free", or held by "M" (mutator) or "R" (reader)
    objs,             \* the OpenOrder objects allocated so far; a pointer is an index
    refs,             \* BAccountInfo.OpenOrder as the map holds it: key -> pointer
    mutator,          \* the goroutine that calls a mutating method, and where it is
    reader,           \* the goroutine that calls a read accessor, and what it got
    committed,        \* history: the store when the last mutating call returned
    accountDetails,     \* MarginAccountInfo.accountDetails: account id -> details
    accountsLastUpdate, \* MarginAccountInfo.accountsLastUpdate: account id -> time
    getters,            \* caller -> where its GetAccountInfo call is, with its locals
    snapshot,           \* CoinStateWorker.snapshot: the list of the last fetch
    allState,           \* CoinStateWorker.allState: coin -> CoinInfo
    coinLock,           \* CoinStateWorker.lock: "free" or its holder
    updater,            \* CoinStateWorker.update: where it is, with i and as
    seen                \* history: what the last AllInfo or GetOneInfo call returned

vars == << AccountInfo, CompletedOrders, WSOrderTracker, now, messages, supPc,
           accountState, orders, readM, wsConn, quit, tmActive, tmC, wdPc, wdFront,
           dispPc, dispM, dispOrder, epoch, nRead, ideal, lastSeq, seenStatus, closures, pushed,
           dropped, restOk, nCalls, lastCall, kaActive, kaC, kaPc, kaLog,
           mu, objs, refs, mutator, reader, committed,
           accountDetails, accountsLastUpdate, getters,
           snapshot, allState, coinLock, updater, seen >>

marginVars == << accountDetails, accountsLastUpdate, getters >>
coinVars == << snapshot, allState, coinLock, updater, seen >>
sideVars == << marginVars, coinVars >>

storeVars == << AccountInfo >>
supVars == << supPc, accountState, orders, readM, restOk >>
connVars == << wsConn, quit >>
timerVars == << tmActive, tmC >>
wdVars == << wdPc, wdFront, closures >>
dispVars == << dispPc, dispM, dispOrder, lastSeq, seenStatus >>
envVars == << now, pushed >>
apiVars == << nCalls, lastCall >>
kaVars == << kaActive, kaC, kaPc, kaLog >>
accVars == << mu, objs, refs, mutator, reader, committed >>

Sessions == 1..MaxSessions

\* the goroutines that call MarginAccountInfo.GetAccountInfo
Callers == 1..2
\* make(map[accountID]...): a map without entries
NoDetails == [k \in {} |-> 0]
\* a caller that is in no call
IdleGetter ==
    [pc |-> "idle", id |-> "", update |-> 0, ai |-> 0, ok |-> FALSE, fetched |-> 0,
     out |-> [ai |-> 0, err |-> FALSE, cached |-> FALSE, rest |-> FALSE, at |-> 0]]
\* the nil map of CoinStateWorker.allState
NoCoins == [k \in {} |-> 0]
NoFrame == [m |-> [e |-> NoE, ok |-> FALSE], epoch |-> 0, seq |-> 0]
NoCall == [op |-> "none"]
NoRefs == [k \in {} |-> 0]
IdleMutator == [pc |-> "idle", op |-> "none", arg |-> <<>>, i |-> 0]
IdleReader ==
    [pc |-> "idle", op |-> "none", arg |-> <<>>, ptrs |-> {}, val |-> <<>>,
     copy |-> <<>>, seen |-> <<>>, none |-> <<>>, all |-> <<>>, atCall |-> <<>>,
     waited |-> FALSE]

\* everything but the store, after NewAccountDataWorker and before Run
InitWorker ==
    /\ CompletedOrders = EmptyMap
    /\ WSOrderTracker = <<>>
    /\ now = 0
    /\ messages = <<>>
    /\ supPc = "createKey"
    /\ accountState = <<>>
    /\ orders = <<>>
    /\ readM = NoFrame.m
    /\ wsConn = [s \in Sessions |-> "none"]
    /\ quit = [s \in Sessions |-> 0]
    /\ tmActive = FALSE
    /\ tmC = 0
    /\ wdPc = [s \in Sessions |-> "none"]
    /\ wdFront = [s \in Sessions |-> 0]
    /\ dispPc = "recv"
    /\ dispM = NoFrame
    /\ dispOrder = EmptyOrder
    /\ epoch = 0
    /\ nRead = 0
    /\ ideal = EmptyInfo
    /\ lastSeq = 0
    /\ seenStatus = [k \in Keys |-> {}]
    /\ closures = [u \in 1..MaxPush |-> 0]
    /\ pushed = <<>>
    /\ dropped = 0
    /\ restOk = {}
    /\ nCalls = 0
    /\ lastCall = NoCall
    /\ kaActive = [s \in Sessions |-> FALSE]
    /\ kaC = [s \in Sessions |-> 0]
    /\ kaPc = [s \in Sessions |-> "none"]
    /\ kaLog = [s \in Sessions |-> <<>>]
    /\ accountDetails = NoDetails
    /\ accountsLastUpdate = NoDetails
    /\ getters = [c \in Callers |-> IdleGetter]
    /\ snapshot = <<>>
    /\ allState = NoCoins
    /\ coinLock = "free"
    /\ updater = [pc |-> "fetch", i |-> <<>>, as |-> NoCoins, err |-> FALSE,
                  built |-> FALSE]
    /\ seen = NoCall
    /\ mu = "free"
    /\ objs = <<>>
    /\ refs = NoRefs
    /\ mutator = IdleMutator
    /\ reader = IdleReader
    /\ committed = EmptyInfo

Init == AccountInfo = EmptyInfo /\ InitWorker

\* --------------------------------------------------- collaborators (lib/...)
\* orderlist.OrderList.Push(id, ts): appended, so the oldest entry is the front
TrackerPush(list, entry) == Append(list, entry)

\* orderlist.OrderList.Remove(id)
TrackerRemove(list, id) == SelectSeq(list, LAMBDA e : e.id # id)

\* orderlist.OrderList.Reset()
TrackerReset(list) == <<>>

\* ocache.OCache.Set(key, order)
CacheSet(cache, key, order) == (key :> order) @@ cache

\* BAccountInfoStore.SetData(info)
SetData(info) == info

\* `messages <- m` on the buffered channel: first in, first out
ChanSend_Front(q, x) == <<x>> \o q

ChanSend(q, x) == Append(q, x)

\* ------------------------------------------------- Run: the supervisor loop
\* initWSSession: restClient.CreateListenKey()
CreateListenKeyOk ==
    /\ supPc = "createKey"
    /\ epoch < MaxSessions
    /\ supPc' = "getState"
    /\ restOk' = {"listenKey"}
    /\ UNCHANGED << storeVars, CompletedOrders, WSOrderTracker, messages, accountState,
                    orders, readM, connVars, timerVars, wdVars, dispVars, envVars,
                    apiVars, kaVars, accVars, dropped, epoch, nRead, ideal, sideVars >>

CreateListenKeyFail ==
    /\ supPc = "createKey"
    /\ supPc' = "sleep3"
    /\ restOk' = {}
    /\ UNCHANGED << storeVars, CompletedOrders, WSOrderTracker, messages, accountState,
                    orders, readM, connVars, timerVars, wdVars, dispVars, envVars,
                    apiVars, kaVars, accVars, dropped, epoch, nRead, ideal, sideVars >>

\* initWSSession: restClient.GetAccountState()
GetAccountStateOk(b) ==
    /\ supPc = "getState"
    /\ accountState' = b
    /\ supPc' = "getOrders"
    /\ restOk' = restOk \cup {"accountState"}
    /\ UNCHANGED << storeVars, CompletedOrders, WSOrderTracker, messages, orders, readM,
                    connVars, timerVars, wdVars, dispVars, envVars, apiVars, kaVars, accVars, dropped, epoch,
                    nRead, ideal, sideVars >>

GetAccountStateFail ==
    /\ supPc = "getState"
    /\ supPc' = "sleep3"
    /\ UNCHANGED << storeVars, CompletedOrders, WSOrderTracker, messages, accountState,
                    orders, readM, restOk, connVars, timerVars, wdVars, dispVars,
                    envVars, apiVars, kaVars, accVars, dropped, epoch, nRead, ideal, sideVars >>

\* initWSSession: restClient.GetOpenOrders("")
GetOpenOrdersOk(os) ==
    /\ supPc = "getOrders"
    /\ orders' = os
    /\ supPc' = "setData"
    /\ restOk' = restOk \cup {"openOrders"}
    /\ UNCHANGED << storeVars, CompletedOrders, WSOrderTracker, messages, accountState,
                    readM, connVars, timerVars, wdVars, dispVars, envVars, apiVars, kaVars, accVars, dropped,
                    epoch, nRead, ideal, sideVars >>

GetOpenOrdersFail_Commit ==
    /\ supPc = "getOrders"
    /\ supPc' = "sleep3"
    /\ AccountInfo' = SetData([Balances |-> accountState, OpenOrder |-> EmptyMap])
    /\ accountState' = <<>>
    /\ UNCHANGED << CompletedOrders, WSOrderTracker, messages, orders, readM, restOk,
                    connVars, timerVars, wdVars, dispVars, envVars, apiVars, kaVars, accVars, dropped,
                    epoch, nRead, ideal, sideVars >>

GetOpenOrdersFail ==
    /\ supPc = "getOrders"
    /\ supPc' = "sleep3"
    /\ accountState' = <<>>
    /\ UNCHANGED << storeVars, CompletedOrders, WSOrderTracker, messages, orders, readM,
                    restOk, connVars, timerVars, wdVars, dispVars, envVars, apiVars, kaVars, accVars, dropped,
                    epoch, nRead, ideal, sideVars >>

\* initWSSession: info is built from accountState and orders, then SetData(info)
InitSetData ==
    /\ supPc = "setData"
    /\ LET info == [Balances |-> accountState, OpenOrder |-> OrdersToMap(orders)]
       IN  /\ AccountInfo' = SetData(info)
           /\ ideal' = info
    /\ epoch' = epoch + 1
    /\ supPc' = "dial"
    /\ accountState' = <<>>
    /\ orders' = <<>>
    /\ UNCHANGED << CompletedOrders, WSOrderTracker, messages, readM, restOk, connVars,
                    timerVars, wdVars, dispVars, envVars, apiVars, kaVars, accVars, dropped, nRead, sideVars >>

\* no `continue` after a failed initWSSession: the loop body goes on
Sleep3_NoContinue ==
    /\ supPc = "sleep3"
    /\ supPc' = "dial"
    /\ UNCHANGED << storeVars, CompletedOrders, WSOrderTracker, messages, accountState,
                    orders, readM, restOk, connVars, timerVars, wdVars, dispVars,
                    envVars, apiVars, kaVars, accVars, dropped, epoch, nRead, ideal, sideVars >>

\* the goroutine returns after a failed initWSSession
Sleep3_Return ==
    /\ supPc = "sleep3"
    /\ supPc' = "returned"
    /\ UNCHANGED << storeVars, CompletedOrders, WSOrderTracker, messages, accountState,
                    orders, readM, restOk, connVars, timerVars, wdVars, dispVars,
                    envVars, apiVars, kaVars, accVars, dropped, epoch, nRead, ideal, sideVars >>

\* Run: time.Sleep(3 s) and continue, after initWSSession failed
Sleep3 ==
    /\ supPc = "sleep3"
    /\ supPc' = "createKey"
    /\ UNCHANGED << storeVars, CompletedOrders, WSOrderTracker, messages, accountState,
                    orders, readM, restOk, connVars, timerVars, wdVars, dispVars,
                    envVars, apiVars, kaVars, accVars, dropped, epoch, nRead, ideal, sideVars >>

\* Run: keepAliveKey(key); subscribeDataStream: Dial succeeds, checkOrder is started,
\* the timer is created and stopped
DialOk ==
    /\ supPc = "dial"
    /\ wsConn' = [wsConn EXCEPT ![epoch] = "open"]
    /\ wdPc' = [wdPc EXCEPT ![epoch] = "wait"]
    /\ tmActive' = FALSE
    /\ tmC' = 0
    /\ supPc' = "read"
    /\ kaActive' = [kaActive EXCEPT ![epoch] = TRUE]
    /\ kaPc' = [kaPc EXCEPT ![epoch] = "wait"]
    /\ UNCHANGED << storeVars, CompletedOrders, WSOrderTracker, messages, accountState,
                    orders, readM, restOk, quit, wdFront, closures, dispVars, envVars,
                    apiVars, accVars, kaC, kaLog, dropped, epoch, nRead, ideal, sideVars >>

\* Run: keepAliveKey(key); subscribeDataStream: Dial succeeds, checkOrder is started,
\* and the second of time.NewTimer passes before tm.Stop() is called: the runtime
\* has sent on tm.C, Stop returns false and its result is not looked at
DialOkLate ==
    /\ supPc = "dial"
    /\ wsConn' = [wsConn EXCEPT ![epoch] = "open"]
    /\ wdPc' = [wdPc EXCEPT ![epoch] = "wait"]
    /\ tmActive' = FALSE
    /\ tmC' = 1
    /\ supPc' = "read"
    /\ kaActive' = [kaActive EXCEPT ![epoch] = TRUE]
    /\ kaPc' = [kaPc EXCEPT ![epoch] = "wait"]
    /\ UNCHANGED << storeVars, CompletedOrders, WSOrderTracker, messages, accountState,
                    orders, readM, restOk, quit, wdFront, closures, dispVars, envVars,
                    apiVars, accVars, kaC, kaLog, dropped, epoch, nRead, ideal, sideVars >>

\* Run: keepAliveKey(key); subscribeDataStream: Dial fails, the error is returned
DialFail ==
    /\ supPc = "dial"
    /\ supPc' = "broken"
    /\ kaActive' = [kaActive EXCEPT ![epoch] = TRUE]
    /\ kaPc' = [kaPc EXCEPT ![epoch] = "wait"]
    /\ UNCHANGED << storeVars, CompletedOrders, WSOrderTracker, messages, accountState,
                    orders, readM, restOk, connVars, timerVars, wdVars, dispVars,
                    envVars, apiVars, accVars, kaC, kaLog, dropped, epoch, nRead, ideal, sideVars >>

ReadMessageOk_NoReset(f, limit) ==
    /\ supPc = "read"
    /\ wsConn[epoch] = "open"
    /\ nRead < limit
    /\ readM' = f
    /\ nRead' = nRead + 1
    /\ ideal' = ApplyFrame(ideal, f)
    /\ supPc' = "select"
    /\ UNCHANGED << storeVars, CompletedOrders, WSOrderTracker, messages, accountState,
                    orders, restOk, connVars, timerVars, wdVars, dispVars, envVars,
                    apiVars, kaVars, accVars, dropped, epoch, sideVars >>

\* subscribeDataStream: ReadMessage returns frame f, tm.Reset(time.Second)
ReadMessageOk(f, limit) ==
    /\ supPc = "read"
    /\ wsConn[epoch] = "open"
    /\ nRead < limit
    /\ readM' = f
    /\ nRead' = nRead + 1
    /\ ideal' = ApplyFrame(ideal, f)
    /\ tmActive' = TRUE
    /\ supPc' = "select"
    /\ UNCHANGED << storeVars, CompletedOrders, WSOrderTracker, messages, accountState,
                    orders, restOk, connVars, tmC, wdVars, dispVars, envVars, apiVars, kaVars, accVars, dropped,
                    epoch, sideVars >>

\* the error is returned without the deferred Close and the store of quit
ReadMessageErr_NoDefer ==
    /\ supPc = "read"
    /\ supPc' = "broken"
    /\ UNCHANGED << storeVars, CompletedOrders, WSOrderTracker, messages, accountState,
                    orders, readM, restOk, connVars, timerVars, wdVars, dispVars, envVars,
                    apiVars, kaVars, accVars, dropped, epoch, nRead, ideal, sideVars >>

\* subscribeDataStream: ReadMessage fails (transport error, or the connection was
\* closed); the error is returned and the deferred function closes the connection
\* and sets quit
ReadMessageErr ==
    /\ supPc = "read"
    /\ wsConn' = [wsConn EXCEPT ![epoch] = "closed"]
    /\ quit' = [quit EXCEPT ![epoch] = 1]
    /\ supPc' = "broken"
    /\ UNCHANGED << storeVars, CompletedOrders, WSOrderTracker, messages, accountState,
                    orders, readM, restOk, timerVars, wdVars, dispVars, envVars,
                    apiVars, kaVars, accVars, dropped, epoch, nRead, ideal, sideVars >>

\* subscribeDataStream: select, case messages <- m
SelectPush ==
    /\ supPc = "select"
    /\ Len(messages) < ChanCap
    /\ messages' = ChanSend(messages, [m |-> readM, epoch |-> epoch, seq |-> nRead])
    /\ supPc' = "stopTimer"
    /\ UNCHANGED << storeVars, CompletedOrders, WSOrderTracker, accountState, orders,
                    readM, restOk, connVars, timerVars, wdVars, dispVars, envVars,
                    apiVars, kaVars, accVars, dropped, epoch, nRead, ideal, sideVars >>

\* subscribeDataStream: select, case <-tm.C: the frame is dropped
SelectTimeout ==
    /\ supPc = "select"
    /\ tmC = 1
    /\ tmC' = 0
    /\ dropped' = dropped + 1
    /\ supPc' = "read"
    /\ UNCHANGED << storeVars, CompletedOrders, WSOrderTracker, messages, accountState,
                    orders, readM, restOk, connVars, tmActive, wdVars, dispVars,
                    envVars, apiVars, kaVars, accVars, epoch, nRead, ideal, sideVars >>

\* subscribeDataStream: if !tm.Stop()
StopTimer ==
    /\ supPc = "stopTimer"
    /\ IF tmActive
       THEN tmActive' = FALSE /\ supPc' = "read"
       ELSE tmActive' = tmActive /\ supPc' = "drain"
    /\ UNCHANGED << storeVars, CompletedOrders, WSOrderTracker, messages, accountState,
                    orders, readM, restOk, connVars, tmC, wdVars, dispVars, envVars,
                    apiVars, kaVars, accVars, dropped, epoch, nRead, ideal, sideVars >>

\* subscribeDataStream: <-tm.C after a Stop that returned false
DrainTimer ==
    /\ supPc = "drain"
    /\ tmC = 1
    /\ tmC' = 0
    /\ supPc' = "read"
    /\ UNCHANGED << storeVars, CompletedOrders, WSOrderTracker, messages, accountState,
                    orders, readM, restOk, connVars, tmActive, wdVars, dispVars,
                    envVars, apiVars, kaVars, accVars, dropped, epoch, nRead, ideal, sideVars >>

\* the runtime: the one-second timer expires and sends on tm.C
TimerFire ==
    /\ tmActive
    /\ tmActive' = FALSE
    /\ tmC' = 1
    /\ UNCHANGED << storeVars, CompletedOrders, WSOrderTracker, messages, supVars,
                    connVars, wdVars, dispVars, envVars, apiVars, kaVars, accVars, dropped, epoch, nRead, ideal, sideVars >>

\* Run: subscribeDataStream returned an error: updater.Stop(), time.Sleep(5 s)
Broken ==
    /\ supPc = "broken"
    /\ supPc' = "reset"
    /\ kaActive' = [kaActive EXCEPT ![epoch] = FALSE]
    /\ UNCHANGED << storeVars, CompletedOrders, WSOrderTracker, messages, accountState,
                    orders, readM, restOk, connVars, timerVars, wdVars, dispVars,
                    envVars, apiVars, accVars, kaC, kaPc, kaLog, dropped, epoch, nRead, ideal, sideVars >>

ResetTracker_Skip ==
    /\ supPc = "reset"
    /\ supPc' = "createKey"
    /\ UNCHANGED << storeVars, CompletedOrders, WSOrderTracker, messages, accountState,
                    orders, readM, restOk, connVars, timerVars, wdVars, dispVars,
                    envVars, apiVars, kaVars, accVars, dropped, epoch, nRead, ideal, sideVars >>

\* Run: WSOrderTracker.Reset(), and the loop starts over
ResetTracker ==
    /\ supPc = "reset"
    /\ WSOrderTracker' = TrackerReset(WSOrderTracker)
    /\ supPc' = "createKey"
    /\ UNCHANGED << storeVars, CompletedOrders, messages, accountState, orders, readM,
                    restOk, connVars, timerVars, wdVars, dispVars, envVars, apiVars, kaVars, accVars, dropped,
                    epoch, nRead, ideal, sideVars >>

\* --------------------------------------------------- checkOrder: the watchdog
\* checkOrder does not look at quit
WdTick_NoQuit(s) ==
    /\ wdPc[s] = "wait"
    /\ wdPc' = [wdPc EXCEPT ![s] = "peek"]
    /\ UNCHANGED << storeVars, CompletedOrders, WSOrderTracker, messages, supVars,
                    connVars, timerVars, wdFront, closures, dispVars, envVars, apiVars, kaVars, accVars, dropped,
                    epoch, nRead, ideal, sideVars >>

\* checkOrder of session s: a tick; the goroutine returns when quit is set
WdTick(s) ==
    /\ wdPc[s] = "wait"
    /\ wdPc' = [wdPc EXCEPT ![s] = IF quit[s] = 1 THEN "done" ELSE "peek"]
    /\ UNCHANGED << storeVars, CompletedOrders, WSOrderTracker, messages, supVars,
                    connVars, timerVars, wdFront, closures, dispVars, envVars, apiVars, kaVars, accVars, dropped,
                    epoch, nRead, ideal, sideVars >>

\* no entry is ever old enough
IsStale_Never(entry, currentMillis) == FALSE

\* the front entry is old enough for checkOrder to close the connection
IsStale(entry, currentMillis) == ~(currentMillis - entry.ts < OrderTrackMillis)

\* checkOrder of session s: PeekFront and the age test
WdPeek(s) ==
    /\ wdPc[s] = "peek"
    /\ IF WSOrderTracker = <<>>
       THEN wdPc' = [wdPc EXCEPT ![s] = "wait"] /\ wdFront' = wdFront
       ELSE IF ~IsStale(Head(WSOrderTracker), now)
       THEN wdPc' = [wdPc EXCEPT ![s] = "wait"] /\ wdFront' = wdFront
       ELSE /\ wdPc' = [wdPc EXCEPT ![s] = "close"]
            /\ wdFront' = [wdFront EXCEPT ![s] = Head(WSOrderTracker).uid]
    /\ UNCHANGED << storeVars, CompletedOrders, WSOrderTracker, messages, supVars,
                    connVars, timerVars, closures, dispVars, envVars, apiVars, kaVars, accVars, dropped, epoch,
                    nRead, ideal, sideVars >>

\* checkOrder closes the connection the worker holds now, not the one it was given
WdClose_Current(s) ==
    /\ wdPc[s] = "close"
    /\ wsConn' = [wsConn EXCEPT ![epoch] = "closed"]
    /\ closures' = IF wsConn[epoch] = "open"
                   THEN [closures EXCEPT ![wdFront[s]] = @ + 1]
                   ELSE closures
    /\ wdPc' = [wdPc EXCEPT ![s] = "done"]
    /\ wdFront' = [wdFront EXCEPT ![s] = 0]
    /\ UNCHANGED << storeVars, CompletedOrders, WSOrderTracker, messages, supVars, quit,
                    timerVars, dispVars, envVars, apiVars, kaVars, accVars, dropped, epoch, nRead, ideal, sideVars >>

\* checkOrder of session s: wsConn.Close() and return
WdClose(s) ==
    /\ wdPc[s] = "close"
    /\ wsConn' = [wsConn EXCEPT ![s] = "closed"]
    /\ closures' = IF wsConn[s] = "open"
                   THEN [closures EXCEPT ![wdFront[s]] = @ + 1]
                   ELSE closures
    /\ wdPc' = [wdPc EXCEPT ![s] = "done"]
    /\ wdFront' = [wdFront EXCEPT ![s] = 0]
    /\ UNCHANGED << storeVars, CompletedOrders, WSOrderTracker, messages, supVars, quit,
                    timerVars, dispVars, envVars, apiVars, kaVars, accVars, dropped, epoch, nRead, ideal, sideVars >>

\* ------------------------------------------- processMessages: the dispatcher
\* for m := range messages
DispRecv ==
    /\ dispPc = "recv"
    /\ messages # <<>>
    /\ dispM' = Head(messages)
    /\ messages' = Tail(messages)
    /\ lastSeq' = Head(messages).seq
    /\ dispPc' = "apply"
    /\ UNCHANGED << storeVars, CompletedOrders, WSOrderTracker, supVars, connVars,
                    timerVars, wdVars, dispOrder, seenStatus, envVars, apiVars, kaVars, accVars, dropped, epoch, nRead,
                    ideal, sideVars >>

\* what processMessages does after a frame it could not handle
AfterFailure == "returned"

\* the frame has no "e", its payload does not parse, or the store rejects it
DispFail ==
    /\ dispPc = "apply"
    /\ \/ dispM.m.e = NoE
       \/ dispM.m.e \in {outboundAccountPosition, balanceUpdate, executionReport}
          /\ ~dispM.m.ok
       \/ dispM.m.e = balanceUpdate /\ dispM.m.ok
          /\ UpdateBalanceDelta(AccountInfo, dispM.m).err
    /\ dispPc' = AfterFailure
    /\ dispM' = NoFrame
    /\ UNCHANGED << storeVars, CompletedOrders, WSOrderTracker, messages, supVars,
                    connVars, timerVars, wdVars, dispOrder, lastSeq, seenStatus, envVars, apiVars, kaVars, accVars, dropped,
                    epoch, nRead, ideal, sideVars >>

\* case outboundAccountPosition: parseAccountBalance, UpdateBalance
DispPosition ==
    /\ dispPc = "apply"
    /\ dispM.m.e = outboundAccountPosition /\ dispM.m.ok
    /\ AccountInfo' = UpdateBalance(AccountInfo, dispM.m.B).info
    /\ dispPc' = "recv"
    /\ dispM' = NoFrame
    /\ UNCHANGED << CompletedOrders, WSOrderTracker, messages, supVars, connVars,
                    timerVars, wdVars, dispOrder, lastSeq, seenStatus, envVars, apiVars, kaVars, accVars, dropped, epoch,
                    nRead, ideal, sideVars >>

\* case balanceUpdate: json.Unmarshal, UpdateBalanceDelta
DispDelta ==
    /\ dispPc = "apply"
    /\ dispM.m.e = balanceUpdate /\ dispM.m.ok
    /\ ~UpdateBalanceDelta(AccountInfo, dispM.m).err
    /\ AccountInfo' = UpdateBalanceDelta(AccountInfo, dispM.m).info
    /\ dispPc' = "recv"
    /\ dispM' = NoFrame
    /\ UNCHANGED << CompletedOrders, WSOrderTracker, messages, supVars, connVars,
                    timerVars, wdVars, dispOrder, lastSeq, seenStatus, envVars, apiVars, kaVars, accVars, dropped, epoch,
                    nRead, ideal, sideVars >>

\* case executionReport: parseAccountOrder, UpdateOrder
DispExec ==
    /\ dispPc = "apply"
    /\ dispM.m.e = executionReport /\ dispM.m.ok
    /\ LET r == UpdateOrder(AccountInfo, dispM.m)
       IN  /\ AccountInfo' = r.info
           /\ dispOrder' = r.order
           /\ dispPc' = IF r.removed THEN "set" ELSE "untrack"
    /\ seenStatus' = [seenStatus EXCEPT ![MakeCompletedOrderID(dispM.m.s, dispM.m.i)] =
                                           @ \cup {dispM.m.X}]
    /\ UNCHANGED << CompletedOrders, WSOrderTracker, messages, supVars, connVars,
                    timerVars, wdVars, dispM, lastSeq, envVars, apiVars, kaVars, accVars, dropped, epoch, nRead,
                    ideal, sideVars >>

\* if del: CompletedOrders.Set(MakeCompletedOrderID(order.Symbol, order.OrderID), order)
DispSet ==
    /\ dispPc = "set"
    /\ CompletedOrders' =
           CacheSet(CompletedOrders,
                    MakeCompletedOrderID(dispOrder.Symbol, dispOrder.OrderID), dispOrder)
    /\ dispPc' = "untrack"
    /\ UNCHANGED << storeVars, WSOrderTracker, messages, supVars, connVars, timerVars,
                    wdVars, dispM, dispOrder, lastSeq, seenStatus, envVars, apiVars, kaVars, accVars, dropped, epoch, nRead,
                    ideal, sideVars >>

\* the order is taken off the tracking list only when UpdateOrder removed it
DispUntrack_OnlyRemoved ==
    /\ dispPc = "untrack"
    /\ WSOrderTracker' =
           IF IsTerminal(dispM.m.X)
           THEN TrackerRemove(WSOrderTracker, MakeCompletedOrderID(dispM.m.s, dispM.m.i))
           ELSE WSOrderTracker
    /\ dispPc' = "recv"
    /\ dispM' = NoFrame
    /\ dispOrder' = EmptyOrder
    /\ UNCHANGED << storeVars, CompletedOrders, messages, supVars, connVars, timerVars,
                    wdVars, lastSeq, seenStatus, envVars, apiVars, kaVars, accVars, dropped, epoch, nRead, ideal, sideVars >>

\* WSOrderTracker.Remove(MakeCompletedOrderID(o.Symbol, o.OrderID))
DispUntrack ==
    /\ dispPc = "untrack"
    /\ WSOrderTracker' =
           TrackerRemove(WSOrderTracker, MakeCompletedOrderID(dispM.m.s, dispM.m.i))
    /\ dispPc' = "recv"
    /\ dispM' = NoFrame
    /\ dispOrder' = EmptyOrder
    /\ UNCHANGED << storeVars, CompletedOrders, messages, supVars, connVars, timerVars,
                    wdVars, lastSeq, seenStatus, envVars, apiVars, kaVars, accVars, dropped, epoch, nRead, ideal, sideVars >>

\* the dispatcher returns on an "e" that no case of the switch names
DispOther_Return ==
    /\ dispPc = "apply"
    /\ dispM.m.e \notin {NoE, outboundAccountPosition, balanceUpdate, executionReport}
    /\ dispPc' = "returned"
    /\ dispM' = NoFrame
    /\ UNCHANGED << storeVars, CompletedOrders, WSOrderTracker, messages, supVars,
                    connVars, timerVars, wdVars, dispOrder, lastSeq, seenStatus, envVars, apiVars, kaVars, accVars, dropped,
                    epoch, nRead, ideal, sideVars >>

\* an "e" that no case of the switch names: the loop goes on
DispOther ==
    /\ dispPc = "apply"
    /\ dispM.m.e \notin {NoE, outboundAccountPosition, balanceUpdate, executionReport}
    /\ dispPc' = "recv"
    /\ dispM' = NoFrame
    /\ UNCHANGED << storeVars, CompletedOrders, WSOrderTracker, messages, supVars,
                    connVars, timerVars, wdVars, dispOrder, lastSeq, seenStatus, envVars, apiVars, kaVars, accVars, dropped,
                    epoch, nRead, ideal, sideVars >>

\* ------------------------------------------------------------ the environment
\* an order is submitted: its id and the submit time are pushed onto the tracker
TrackOrder(id) ==
    /\ Len(pushed) < MaxPush
    /\ LET entry == [id |-> MakeCompletedOrderID("BNBUSDT", id), ts |-> now,
                     uid |-> Len(pushed) + 1]
       IN  /\ WSOrderTracker' = TrackerPush(WSOrderTracker, entry)
           /\ pushed' = Append(pushed, entry)
    /\ UNCHANGED << storeVars, CompletedOrders, messages, supVars, connVars, timerVars,
                    wdVars, dispVars, now, apiVars, kaVars, accVars, dropped, epoch, nRead, ideal, sideVars >>

\* time passes
Tick ==
    /\ now < MaxTime
    /\ now' = now + 1
    /\ UNCHANGED << storeVars, CompletedOrders, WSOrderTracker, messages, supVars,
                    connVars, timerVars, wdVars, dispVars, pushed, apiVars, kaVars, accVars, dropped, epoch, nRead,
                    ideal, sideVars >>

\* the supervisor goroutine of Run, with the answers of the REST endpoints drawn
\* from Bs and Os and the frames of the stream, at most limit of them, from Fs
Supervisor(Bs, Os, Fs, limit) ==
    \/ CreateListenKeyOk \/ CreateListenKeyFail
    \/ \E b \in Bs : GetAccountStateOk(b)
    \/ GetAccountStateFail
    \/ \E os \in Os : GetOpenOrdersOk(os)
    \/ GetOpenOrdersFail
    \/ InitSetData \/ Sleep3
    \/ DialOk \/ DialFail
    \/ \E f \in Fs : ReadMessageOk(f, limit)
    \/ ReadMessageErr
    \/ SelectPush \/ SelectTimeout \/ StopTimer \/ DrainTimer
    \/ Broken \/ ResetTracker

Watchdog == \E s \in Sessions : WdTick(s) \/ WdPeek(s) \/ WdClose(s)

Dispatcher ==
    DispRecv \/ DispFail \/ DispPosition \/ DispDelta \/ DispExec \/ DispSet
    \/ DispUntrack \/ DispOther

\* The worker while no order is tracked: WSOrderTracker stays empty, so that
\* checkOrder finds nothing on any tick and closes no connection.
Next ==
    \/ Supervisor(RestBalances, RestOpenOrders, FrameSet, MaxReads)
    \/ TimerFire
    \/ Dispatcher

Spec == Init /\ [][Next]_vars

\* The worker with orders being tracked while the clock advances: the account is
\* empty at every bootstrap and the stream carries execution reports only, at most
\* one for each order that was submitted.
TrackedFrames == { ExecFrame(TRUE, "BNBUSDT", 1, "FILLED", Dec(1, 0), 2) }

TrackedIDs == {1}

NextWatchdog ==
    \/ Supervisor(RestBalances, {<<>>}, TrackedFrames, Len(pushed))
    \/ TimerFire
    \/ Watchdog
    \/ DispRecv \/ DispExec \/ DispSet \/ DispUntrack
    \/ \E id \in TrackedIDs : TrackOrder(id)
    \/ Tick

SpecWatchdog == Init /\ [][NextWatchdog]_vars

\* The supervisor loop with the watchdog, on a stream that carries no frame: every
\* REST call may fail, the dial may fail, the read fails at any time or after the
\* watchdog closed the connection. The supervisor goroutine is scheduled:
\* time.Sleep returns, updater.Stop() and WSOrderTracker.Reset() return. Nothing
\* is assumed of the REST endpoints, of the transport or of the watchdog.
NextRestart ==
    \/ CreateListenKeyOk \/ CreateListenKeyFail
    \/ \E b \in RestBalances : GetAccountStateOk(b)
    \/ GetAccountStateFail
    \/ GetOpenOrdersOk(<<>>) \/ GetOpenOrdersFail
    \/ InitSetData \/ Sleep3
    \/ DialOk \/ DialFail
    \/ ReadMessageErr
    \/ Broken \/ ResetTracker
    \/ Watchdog
    \/ \E id \in TrackedIDs : TrackOrder(id)
    \/ Tick

SpecRestart ==
    /\ Init /\ [][NextRestart]_vars
    /\ WF_vars(Sleep3)
    /\ WF_vars(Broken)
    /\ WF_vars(ResetTracker)

\* The tracked orders over the life of the sessions: every bootstrap succeeds,
\* the stream carries at most one execution report for each order that
\* was submitted and breaks at any time; the channel never fills, so every push
\* goes through before the timer expires. The supervisor and the watchdog of the
\* current session are scheduled, and a ReadMessage on a connection that was closed returns its
\* error. Nothing is assumed of the dispatcher or of the clock.
\* The supervisor loop with the checkOrder goroutines of all its sessions: the
\* ticker of a checkOrder goroutine fires every second until the goroutine
\* returns, and the goroutine is scheduled.
SpecQuit ==
    /\ Init /\ [][NextRestart]_vars
    /\ \A s \in Sessions : WF_vars(WdTick(s) \/ WdPeek(s) \/ WdClose(s))

ReadClosed == ReadMessageErr /\ wsConn[epoch] = "closed"

NextTrack ==
    \/ CreateListenKeyOk
    \/ \E b \in RestBalances : GetAccountStateOk(b)
    \/ GetOpenOrdersOk(<<>>)
    \/ InitSetData
    \/ DialOk
    \/ \E f \in TrackedFrames : ReadMessageOk(f, Len(pushed))
    \/ ReadMessageErr
    \/ SelectPush \/ StopTimer
    \/ Broken \/ ResetTracker
    \/ Watchdog
    \/ DispRecv \/ DispExec \/ DispSet \/ DispUntrack
    \/ \E id \in TrackedIDs : TrackOrder(id)
    \/ Tick

\* the steps of the supervisor goroutine that do not wait for the environment
SupervisorRuns ==
    Broken \/ ResetTracker \/ ReadClosed \/ SelectPush \/ StopTimer

\* the steps of the checkOrder goroutine of the session that is connected
WatchdogRuns ==
    \E s \in Sessions : s = epoch /\ (WdTick(s) \/ WdPeek(s) \/ WdClose(s))

SpecTrack ==
    /\ Init /\ [][NextTrack]_vars
    /\ WF_vars(SupervisorRuns)
    /\ WF_vars(WatchdogRuns)

\* The tracked orders and the reports of every status: every bootstrap succeeds,
\* the stream carries execution reports of order 1 with any status, at most one for
\* each order that was submitted, and breaks at any time. No watchdog runs.
StatusFrames ==
    { ExecFrame(TRUE, "BNBUSDT", 1, X, IF X = "NEW" THEN Dec(0, 0) ELSE Dec(1, 0), 1) :
        X \in {"NEW", "PARTIALLY_FILLED", "FILLED", "CANCELED", "EXPIRED"} }

NextConfirm ==
    \/ CreateListenKeyOk
    \/ \E b \in RestBalances : GetAccountStateOk(b)
    \/ GetOpenOrdersOk(<<>>)
    \/ InitSetData
    \/ DialOk
    \/ \E f \in StatusFrames : ReadMessageOk(f, Len(pushed))
    \/ ReadMessageErr
    \/ SelectPush \/ StopTimer
    \/ Broken \/ ResetTracker
    \/ DispRecv \/ DispExec \/ DispSet \/ DispUntrack
    \/ \E id \in TrackedIDs : TrackOrder(id)

SpecConfirm == Init /\ [][NextConfirm]_vars

\* The dispatcher facing event types it has no case for: the bootstrap answers
\* with a balance and open orders, orders are submitted at any time, and the
\* stream carries terminal execution reports, for the order of the bootstrap and
\* for another one, and frames of other event types.
UnknownFrames ==
    { [e |-> "listStatus", ok |-> TRUE], [e |-> "outboundAccountInfo", ok |-> TRUE] }

IgnoreFrames ==
    UnknownFrames \cup { ExecFrame(TRUE, "BNBUSDT", 1, "FILLED", Dec(1, 0), 2),
                         ExecFrame(TRUE, "BNBUSDT", 2, "CANCELED", Dec(0, 0), 2) }

NextIgnore ==
    \/ CreateListenKeyOk
    \/ \E b \in RestBalances : GetAccountStateOk(b)
    \/ \E os \in RestOpenOrders : GetOpenOrdersOk(os)
    \/ InitSetData
    \/ DialOk
    \/ \E f \in IgnoreFrames : ReadMessageOk(f, MaxReads)
    \/ ReadMessageErr
    \/ SelectPush \/ StopTimer
    \/ Broken \/ ResetTracker
    \/ DispRecv \/ DispExec \/ DispSet \/ DispUntrack \/ DispOther
    \/ \E id \in TrackedIDs : TrackOrder(id)

SpecIgnore == Init /\ [][NextIgnore]_vars

\* The stream reader facing a dispatcher that may stop receiving: the stream
\* carries one more frame than the channel holds. The reader goroutine is
\* scheduled and the runtime fires a running timer; nothing is assumed of the
\* dispatcher.
PushFrames == { [e |-> "listStatus", ok |-> TRUE] }

NextPush ==
    \/ Supervisor(RestBalances, {<<>>}, PushFrames, ChanCap + 1)
    \/ TimerFire
    \/ DispRecv \/ DispOther

SpecPush ==
    /\ Init /\ [][NextPush]_vars
    /\ WF_vars(TimerFire)
    /\ WF_vars(SelectPush \/ SelectTimeout)
    /\ WF_vars(StopTimer)
    /\ WF_vars(DrainTimer)

\* The stream reader with a timer that may expire at any time while it runs, also
\* between its creation and the first Stop.
NextTimer ==
    \/ NextPush
    \/ DialOkLate

SpecTimer ==
    /\ Init /\ [][NextTimer]_vars
    /\ WF_vars(TimerFire)
    /\ WF_vars(SelectPush \/ SelectTimeout)
    /\ WF_vars(StopTimer)
    /\ WF_vars(DrainTimer)

\* ------------------------------------------- keepAliveKey: the keepalive loop
\* all of the worker but the keepalive loops
nonKaVars ==
    << AccountInfo, CompletedOrders, WSOrderTracker, messages, supVars, connVars,
       timerVars, wdVars, dispVars, envVars, apiVars, accVars, dropped, epoch, nRead, ideal, sideVars >>

\* the number of KeepListenKeyAlive calls issued so far
RECURSIVE KaCalls(_)
KaCalls(n) == IF n = 0 THEN 0 ELSE Len(kaLog[n]) + KaCalls(n - 1)

\* the runtime delivers a tick of the running ticker to t.C (capacity 1)
KaTick(s) ==
    /\ kaActive[s] /\ kaC[s] = 0
    /\ kaC' = [kaC EXCEPT ![s] = 1]
    /\ UNCHANGED << nonKaVars, kaActive, kaPc, kaLog >>

\* for range t.C: the goroutine receives a tick
KaRecv(s) ==
    /\ kaPc[s] = "wait" /\ kaC[s] = 1
    /\ KaCalls(MaxSessions) < MaxKeepAlive
    /\ kaC' = [kaC EXCEPT ![s] = 0]
    /\ kaPc' = [kaPc EXCEPT ![s] = "call"]
    /\ UNCHANGED << nonKaVars, kaActive, kaLog >>

\* RestClient.KeepListenKeyAlive(key) succeeds
KaCallOk(s) ==
    /\ kaPc[s] = "call"
    /\ kaLog' = [kaLog EXCEPT ![s] = Append(@, "ok")]
    /\ kaPc' = [kaPc EXCEPT ![s] = "wait"]
    /\ UNCHANGED << nonKaVars, kaActive, kaC >>

\* the goroutine returns after the failed call
KaCallFail_Return(s) ==
    /\ kaPc[s] = "call"
    /\ kaLog' = [kaLog EXCEPT ![s] = Append(@, "fail")]
    /\ kaPc' = [kaPc EXCEPT ![s] = "done"]
    /\ UNCHANGED << nonKaVars, kaActive, kaC >>

\* RestClient.KeepListenKeyAlive(key) fails: the error is logged
KaCallFail(s) ==
    /\ kaPc[s] = "call"
    /\ kaLog' = [kaLog EXCEPT ![s] = Append(@, "fail")]
    /\ kaPc' = [kaPc EXCEPT ![s] = "wait"]
    /\ UNCHANGED << nonKaVars, kaActive, kaC >>

KeepAlive(s) == KaTick(s) \/ KaRecv(s) \/ KaCallOk(s) \/ KaCallFail(s)

\* The supervisor loop with its keepalive loops: the REST calls of the bootstrap
\* succeed and the stream carries no frame before it breaks.
NextKeepAlive ==
    \/ CreateListenKeyOk
    \/ \E b \in RestBalances : GetAccountStateOk(b)
    \/ GetOpenOrdersOk(<<>>)
    \/ InitSetData
    \/ DialOk \/ DialFail
    \/ ReadMessageErr
    \/ Broken \/ ResetTracker
    \/ \E s \in Sessions : KeepAlive(s)

SpecKeepAlive == Init /\ [][NextKeepAlive]_vars

\* ------------------------------------------------- the store, called directly
\* the execution reports UpdateOrder is called with
StoreEvents ==
    { ExecFrame(TRUE, s, i, X, IF X = "NEW" THEN Dec(0, 0) ELSE Dec(1, 0), E) :
        s \in Symbols, i \in OrderIDs,
        X \in {"NEW", "PARTIALLY_FILLED", "FILLED", "CANCELED", "EXPIRED"},
        E \in {1, 2} }

\* the stores a bootstrap leaves
BootstrapInfos ==
    { [Balances |-> b, OpenOrder |-> OrdersToMap(os)] :
        b \in RestBalances, os \in RestOpenOrders }

InitStore == AccountInfo \in BootstrapInfos /\ InitWorker

workerVars ==
    << CompletedOrders, WSOrderTracker, now, messages, supVars, connVars, timerVars,
       wdVars, dispVars, epoch, nRead, ideal, pushed, dropped, kaVars, sideVars >>

\* a caller calls AccountInfoStore.UpdateOrder(o)
CallUpdateOrder(o) ==
    /\ nCalls < MaxCalls
    /\ nCalls' = nCalls + 1
    /\ LET r == UpdateOrder(AccountInfo, o)
       IN  /\ AccountInfo' = r.info
           /\ lastCall' = [op |-> "UpdateOrder", arg |-> o, before |-> AccountInfo,
                           order |-> r.order, removed |-> r.removed, err |-> r.err]
    /\ UNCHANGED << workerVars, accVars >>

NextStore == \E o \in StoreEvents : CallUpdateOrder(o)

SpecStore == InitStore /\ [][NextStore]_vars

\* ------------------------------------------- the balances, called directly
\* the decimal strings of the events: "1.5", "-1.5", "0.25" and one that is no decimal
DeltaStrings == { Dec(15, 1), Dec(-15, 1), Dec(25, 2), BadStr }

\* the balanceUpdate events UpdateBalanceDelta is called with
DeltaEvents == { DeltaFrame(TRUE, a, d) : a \in Assets, d \in DeltaStrings }

\* the tuples of an outboundAccountPosition payload
PayloadTuples ==
    { [a |-> a, f |-> f, l |-> Dec(0, 0)] : a \in Assets, f \in { Dec(16, 1), Dec(7, 0) } }

\* the payloads UpdateBalance is called with: one or two tuples
Payloads ==
    { <<t>> : t \in PayloadTuples } \cup { <<t, u>> : t \in PayloadTuples, u \in PayloadTuples }

\* the balance a REST snapshot lists for an asset
RestBalance(a, f) == [Asset |-> a, Free |-> f, Locked |-> Dec(0, 0)]

\* the balance lists of a snapshot: at most one entry per asset
SnapshotBalances ==
    LET frees == { Dec(100, 1), BadStr }
    IN  { <<>> }
        \cup { << RestBalance(a, f) >> : a \in Assets, f \in frees }
        \cup { bs \in { << RestBalance(a, f), RestBalance(b, g) >> :
                            a \in Assets, b \in Assets, f \in frees, g \in frees } :
                  bs[1].Asset # bs[2].Asset }

InitBalance ==
    /\ AccountInfo \in { [Balances |-> b, OpenOrder |-> OrdersToMap(os)] :
                           b \in SnapshotBalances, os \in { << RestOrder("BNBUSDT", 1, "NEW") >> } }
    /\ InitWorker

\* a caller calls AccountInfoStore.UpdateBalance(balance)
CallUpdateBalance(payload) ==
    /\ nCalls < MaxCalls
    /\ nCalls' = nCalls + 1
    /\ LET r == UpdateBalance(AccountInfo, payload)
       IN  /\ AccountInfo' = r.info
           /\ lastCall' = [op |-> "UpdateBalance", arg |-> payload,
                           before |-> AccountInfo, err |-> r.err]
    /\ UNCHANGED << workerVars, accVars >>

\* a caller calls AccountInfoStore.UpdateBalanceDelta(balanceUpdate)
CallUpdateBalanceDelta(bu) ==
    /\ nCalls < MaxCalls
    /\ nCalls' = nCalls + 1
    /\ LET r == UpdateBalanceDelta(AccountInfo, bu)
       IN  /\ AccountInfo' = r.info
           /\ lastCall' = [op |-> "UpdateBalanceDelta", arg |-> bu,
                           before |-> AccountInfo, err |-> r.err]
    /\ UNCHANGED << workerVars, accVars >>

NextBalance ==
    \/ \E payload \in Payloads : CallUpdateBalance(payload)
    \/ \E bu \in DeltaEvents : CallUpdateBalanceDelta(bu)

SpecBalance == InitBalance /\ [][NextBalance]_vars

\* ------------------------------------ outboundAccountPosition frames, as JSON
\* A JSON value is [t, v]: a string, a number, an object (v maps its keys to
\* values) or an array (v is the sequence of its elements).
JString(x) == [t |-> "string", v |-> x]
JNumber(n) == [t |-> "number", v |-> n]
JObject(fields) == [t |-> "object", v |-> fields]
JArray(elems) == [t |-> "array", v |-> elems]
JNull == [t |-> "null", v |-> <<>>]

\* a nil *PayloadBalance
NilPayloadBalance == [nil |-> TRUE]

\* a Go string field after json.Unmarshal of an object: the string of the key, the
\* zero value when the key is missing, an error when the value is no string
StringField(obj, key, zero) ==
    IF key \notin DOMAIN obj.v THEN [err |-> FALSE, v |-> zero]
    ELSE IF obj.v[key].t = "string" THEN [err |-> FALSE, v |-> obj.v[key].v]
    ELSE [err |-> TRUE, v |-> zero]

\* json.Unmarshal of one array element into a PayloadBalance with the tags f and l
\* exchanged
UnmarshalPayloadBalance_SwapTags(elem) ==
    IF elem.t = "null" THEN [err |-> FALSE, v |-> NilPayloadBalance]
    ELSE IF elem.t # "object" THEN [err |-> TRUE, v |-> [a |-> "", f |-> BadStr, l |-> BadStr]]
    ELSE LET a == StringField(elem, "a", "")
             f == StringField(elem, "l", BadStr)
             l == StringField(elem, "f", BadStr)
         IN  [err |-> a.err \/ f.err \/ l.err, v |-> [a |-> a.v, f |-> f.v, l |-> l.v]]

\* json.Unmarshal of one array element into a *PayloadBalance (tags a, f, l): null
\* leaves the pointer nil
UnmarshalPayloadBalance(elem) ==
    IF elem.t = "null" THEN [err |-> FALSE, v |-> NilPayloadBalance]
    ELSE IF elem.t # "object" THEN [err |-> TRUE, v |-> [a |-> "", f |-> BadStr, l |-> BadStr]]
    ELSE LET a == StringField(elem, "a", "")
             f == StringField(elem, "f", BadStr)
             l == StringField(elem, "l", BadStr)
         IN  [err |-> a.err \/ f.err \/ l.err, v |-> [a |-> a.v, f |-> f.v, l |-> l.v]]

\* parseAccountBalance(m, logger, &balance): jsonparser.Get(m, "B"), then
\* json.Unmarshal of the value into []*PayloadBalance
parseAccountBalance(m) ==
    IF "B" \notin DOMAIN m.v THEN [err |-> TRUE, balance |-> <<>>]
    ELSE IF m.v["B"].t # "array" THEN [err |-> TRUE, balance |-> <<>>]
    ELSE LET elems == m.v["B"].v
             parsed == [i \in 1..Len(elems) |-> UnmarshalPayloadBalance(elems[i])]
         IN  [err |-> \E i \in 1..Len(elems) : parsed[i].err,
              balance |-> [i \in 1..Len(elems) |-> parsed[i].v]]

\* the tuples of the "B" arrays the exchange sends in the model: two of the test
\* frame, one with a number for "f", one without "l"
RawTuples ==
    { JObject([a |-> JString("BNB"), f |-> JString(Dec(160268308, 8)),
               l |-> JString(Dec(0, 8))]),
      JObject([a |-> JString("BNB"), f |-> JString(Dec(25, 1)),
               l |-> JString(Dec(7534, 2))]),
      JObject([a |-> JString("USDT"), f |-> JString(Dec(100024, 2)),
               l |-> JString(Dec(0, 8))]),
      JObject([a |-> JString("BNB"), f |-> JNumber(1), l |-> JString(Dec(0, 8))]),
      JObject([a |-> JString("USDT"), f |-> JString(Dec(25, 1))]) }

RawFrame(fields) == JObject(fields)

\* the outboundAccountPosition frames: no "B", a "B" that is no array, and the
\* arrays of up to two tuples
RawPositionFrames ==
    LET e == JString(outboundAccountPosition)
    IN  { RawFrame([e |-> e]), RawFrame([e |-> e, B |-> JString(BadStr)]),
          RawFrame([e |-> e, B |-> JArray(<<>>)]) }
        \cup { RawFrame([e |-> e, B |-> JArray(<<t>>)]) : t \in RawTuples }
        \cup { RawFrame([e |-> e, B |-> JArray(<<t, u>>)]) : t \in RawTuples, u \in RawTuples }

\* UpdateBalance reads tokenBalance.Asset of every element: a nil element is a nil
\* pointer dereference
UpdateBalancePanics(payload) ==
    \E i \in 1..Len(payload) : payload[i] = NilPayloadBalance

\* processMessages handles the outboundAccountPosition frame m: parseAccountBalance,
\* then UpdateBalance; it returns when the frame does not parse
DispatchPosition(m) ==
    /\ dispPc = "recv"
    /\ nCalls < MaxCalls
    /\ nCalls' = nCalls + 1
    /\ LET r == parseAccountBalance(m)
           panics == ~r.err /\ UpdateBalancePanics(r.balance)
       IN  /\ AccountInfo' = IF r.err \/ panics THEN AccountInfo
                             ELSE UpdateBalance(AccountInfo, r.balance).info
           /\ dispPc' = IF panics THEN "panicked"
                        ELSE IF r.err THEN AfterFailure ELSE "recv"
           /\ lastCall' = [op |-> "DispatchPosition", arg |-> m, before |-> AccountInfo,
                           balance |-> r.balance, err |-> r.err]
    /\ UNCHANGED << CompletedOrders, WSOrderTracker, messages, supVars, connVars, timerVars,
                    wdVars, dispM, dispOrder, lastSeq, seenStatus, envVars, dropped, epoch,
                    nRead, ideal, kaVars, accVars, sideVars >>

NextParse == \E m \in RawPositionFrames : DispatchPosition(m)

SpecParse == InitStore /\ [][NextParse]_vars

\* --------------------------------------------- status queries on the store
NoOrder == << "", 0 >>

\* a caller calls AccountInfoStore.OrderStatus(symbol, id); removedBefore is the
\* order the call before it removed, if it was an UpdateOrder that removed one
CallOrderStatus(symbol, id) ==
    /\ nCalls < MaxCalls
    /\ nCalls' = nCalls + 1
    /\ LET r == OrderStatus(AccountInfo, symbol, id)
       IN  lastCall' = [op |-> "OrderStatus", arg |-> [s |-> symbol, i |-> id],
                        before |-> AccountInfo, order |-> r.order, err |-> r.err,
                        removedBefore |->
                            IF lastCall.op = "UpdateOrder" /\ lastCall.removed
                            THEN << lastCall.arg.s, lastCall.arg.i >> ELSE NoOrder]
    /\ UNCHANGED << AccountInfo, workerVars, accVars >>

NextQuery ==
    \/ \E o \in StoreEvents : CallUpdateOrder(o)
    \/ \E symbol \in Symbols, id \in OrderIDs : CallOrderStatus(symbol, id)

SpecQuery == InitStore /\ [][NextQuery]_vars

\* ------------------------------------------------- snapshots, called directly
\* BAccountInfoStore.GetAccountState(): a copy of the balances of the store
GetAccountState(info) == info.Balances

\* the snapshots SetData is called with: no, one or two balances and no, one or
\* two open orders
SnapshotInfos ==
    { [Balances |-> b, OpenOrder |-> OrdersToMap(os)] :
        b \in { <<>>, << RestBalance("BNB", Dec(100, 1)) >>,
                << RestBalance("USDT", Dec(100, 1)) >>,
                << RestBalance("BNB", Dec(100, 1)), RestBalance("USDT", Dec(100, 1)) >> },
        os \in { <<>>, << RestOrder("BNBUSDT", 1, "NEW") >>,
                 << RestOrder("BNBUSDT", 2, "NEW") >>,
                 << RestOrder("BNBUSDT", 1, "NEW"), RestOrder("BNBUSDT", 2, "NEW") >> } }

\* the SetData that a read call follows with no mutation in between, and the
\* store that SetData found
SetBefore(call) ==
    CASE call.op = "SetData" -> << [info |-> call.arg, prev |-> call.before] >>
      [] call.op \in {"GetAccountState", "OpenOrders"} -> call.set
      [] OTHER -> <<>>

\* SetData keeps the open orders that info does not name
CallSetData_Merge(info) ==
    /\ nCalls < MaxCalls
    /\ nCalls' = nCalls + 1
    /\ AccountInfo' = [info EXCEPT !.OpenOrder = info.OpenOrder @@ AccountInfo.OpenOrder]
    /\ lastCall' = [op |-> "SetData", arg |-> info, before |-> AccountInfo]
    /\ UNCHANGED << workerVars, accVars >>

\* a caller calls AccountInfoStore.SetData(info)
CallSetData(info) ==
    /\ nCalls < MaxCalls
    /\ nCalls' = nCalls + 1
    /\ AccountInfo' = SetData(info)
    /\ lastCall' = [op |-> "SetData", arg |-> info, before |-> AccountInfo]
    /\ UNCHANGED << workerVars, accVars >>

\* a caller calls AccountInfoStore.GetAccountState()
CallGetAccountState ==
    /\ nCalls < MaxCalls
    /\ nCalls' = nCalls + 1
    /\ lastCall' = [op |-> "GetAccountState", before |-> AccountInfo,
                    state |-> GetAccountState(AccountInfo), set |-> SetBefore(lastCall)]
    /\ UNCHANGED << AccountInfo, workerVars, accVars >>

\* a caller calls AccountInfoStore.OpenOrders()
CallOpenOrders ==
    /\ nCalls < MaxCalls
    /\ nCalls' = nCalls + 1
    /\ lastCall' = [op |-> "OpenOrders", before |-> AccountInfo,
                    orders |-> OpenOrders(AccountInfo), set |-> SetBefore(lastCall)]
    /\ UNCHANGED << AccountInfo, workerVars, accVars >>

NextSnapshot ==
    \/ \E info \in SnapshotInfos : CallSetData(info)
    \/ \E o \in StoreEvents : CallUpdateOrder(o)
    \/ \E t \in PayloadTuples : CallUpdateBalance(<< t >>)
    \/ CallGetAccountState
    \/ CallOpenOrders

SpecSnapshot == InitStore /\ [][NextSnapshot]_vars

\* --------------------------------- MarginAccountInfo: the cached margin details
\* In this part the unit of the clock is the minute: cachedValidDuration is 1.
cachedValidDuration == 1

\* the keys of MarginAccountInfo.accounts, and an id that is no key of it
AccountIDs == {"main"}
UnknownIDs == {"other"}

\* what GetCrossMarginAccountDetails returns: the details as of the fetch, told
\* apart by a version; the time the details are stored at is kept with them
DetailVersions == {1, 2}

\* the time no update was ever stored at: the zero time.Time
ZeroTime == -1

\* m.accountsLastUpdate[id]: the zero time for a missing key
LastUpdate(id) ==
    IF id \in DOMAIN accountsLastUpdate THEN accountsLastUpdate[id] ELSE ZeroTime

\* time.Since(update) <= cachedValidDuration
StillValid(update) == update # ZeroTime /\ now - update <= cachedValidDuration

\* every variable but those of MarginAccountInfo, the call counter and the clock
marginRest ==
    << AccountInfo, CompletedOrders, WSOrderTracker, messages, supVars, connVars,
       timerVars, wdVars, dispVars, epoch, nRead, ideal, pushed, dropped, kaVars,
       lastCall, accVars, coinVars >>

\* GetAccountInfo(id): the two map reads under the lock
GetAccountInfoLock(c, id) ==
    /\ getters[c].pc = "idle"
    /\ nCalls < MaxCalls
    /\ nCalls' = nCalls + 1
    /\ getters' = [getters EXCEPT ![c] =
           [IdleGetter EXCEPT !.pc = "check", !.id = id, !.update = LastUpdate(id),
                              !.ok = id \in DOMAIN accountDetails,
                              !.ai = IF id \in DOMAIN accountDetails
                                     THEN accountDetails[id] ELSE 0]]
    /\ UNCHANGED << marginRest, now, accountDetails, accountsLastUpdate >>

\* the cached copy is returned whenever there is one, whatever its age
GetAccountInfoCheck_NoAge(c) ==
    /\ getters[c].pc = "check"
    /\ getters' = [getters EXCEPT ![c] =
           IF getters[c].ok
           THEN [@ EXCEPT !.pc = "done",
                          !.out = [ai |-> getters[c].ai, err |-> FALSE, cached |-> TRUE,
                                   rest |-> FALSE, at |-> now]]
           ELSE [@ EXCEPT !.pc = "fetch"]]
    /\ UNCHANGED << marginRest, now, nCalls, accountDetails, accountsLastUpdate >>

\* GetAccountInfo: if ok && time.Since(update) <= cachedValidDuration, return ai
GetAccountInfoCheck(c) ==
    /\ getters[c].pc = "check"
    /\ getters' = [getters EXCEPT ![c] =
           IF getters[c].ok /\ StillValid(getters[c].update)
           THEN [@ EXCEPT !.pc = "done",
                          !.out = [ai |-> getters[c].ai, err |-> FALSE, cached |-> TRUE,
                                   rest |-> FALSE, at |-> now]]
           ELSE [@ EXCEPT !.pc = "fetch"]]
    /\ UNCHANGED << marginRest, now, nCalls, accountDetails, accountsLastUpdate >>

\* UpdateAccount: m.accounts[id] is nil, "account not exists"
UpdateAccountUnknown(c) ==
    /\ getters[c].pc = "fetch"
    /\ getters[c].id \notin AccountIDs
    /\ getters' = [getters EXCEPT ![c] =
           [@ EXCEPT !.pc = "done",
                     !.out = [ai |-> 0, err |-> TRUE, cached |-> FALSE, rest |-> FALSE,
                              at |-> now]]]
    /\ UNCHANGED << marginRest, now, nCalls, accountDetails, accountsLastUpdate >>

\* UpdateAccount: GetCrossMarginAccountDetails returns the details of version v
UpdateAccountFetchOk(c, v) ==
    /\ getters[c].pc = "fetch"
    /\ getters[c].id \in AccountIDs
    /\ getters' = [getters EXCEPT ![c] = [@ EXCEPT !.pc = "store", !.fetched = v]]
    /\ UNCHANGED << marginRest, now, nCalls, accountDetails, accountsLastUpdate >>

\* UpdateAccount: GetCrossMarginAccountDetails fails, the error is returned
UpdateAccountFetchFail(c) ==
    /\ getters[c].pc = "fetch"
    /\ getters[c].id \in AccountIDs
    /\ getters' = [getters EXCEPT ![c] =
           [@ EXCEPT !.pc = "done",
                     !.out = [ai |-> 0, err |-> TRUE, cached |-> FALSE, rest |-> TRUE,
                              at |-> now]]]
    /\ UNCHANGED << marginRest, now, nCalls, accountDetails, accountsLastUpdate >>

\* UpdateAccount: the details and time.Now() are stored under the lock, &ai is
\* returned
UpdateAccountStore(c) ==
    /\ getters[c].pc = "store"
    /\ LET ai == [v |-> getters[c].fetched, storedAt |-> now]
       IN  /\ accountDetails' = (getters[c].id :> ai) @@ accountDetails
           /\ accountsLastUpdate' = (getters[c].id :> now) @@ accountsLastUpdate
           /\ getters' = [getters EXCEPT ![c] =
                  [@ EXCEPT !.pc = "done",
                            !.out = [ai |-> ai, err |-> FALSE, cached |-> FALSE,
                                     rest |-> TRUE, at |-> now]]]
    /\ UNCHANGED << marginRest, now, nCalls >>

\* the caller has its answer
GetAccountInfoReturn(c) ==
    /\ getters[c].pc = "done"
    /\ getters' = [getters EXCEPT ![c] = IdleGetter]
    /\ UNCHANGED << marginRest, now, nCalls, accountDetails, accountsLastUpdate >>

\* Two callers of GetAccountInfo, for an account of the map and for an id that is
\* none, while time passes.
NextMargin ==
    \/ \E c \in Callers, id \in AccountIDs \cup UnknownIDs : GetAccountInfoLock(c, id)
    \/ \E c \in Callers : GetAccountInfoCheck(c)
    \/ \E c \in Callers : UpdateAccountUnknown(c)
    \/ \E c \in Callers, v \in DetailVersions : UpdateAccountFetchOk(c, v)
    \/ \E c \in Callers : UpdateAccountFetchFail(c)
    \/ \E c \in Callers : UpdateAccountStore(c)
    \/ \E c \in Callers : GetAccountInfoReturn(c)
    \/ Tick

SpecMargin == Init /\ [][NextMargin]_vars

\* ------------------------------------- CoinStateWorker: the coin state mirror
CoinNames == {"BTC", "ETH"}

\* a CoinInfo: the coin and, of its other fields, Free
Coin(c, f) == [Coin |-> c, Free |-> f]

\* what AllCoinInfo returns on success: no coin, one coin, two coins, and a list
\* that names a coin twice
FetchedLists ==
    { <<>>, << Coin("BTC", 1) >>, << Coin("BTC", 2), Coin("ETH", 1) >>,
      << Coin("BTC", 1), Coin("BTC", 2) >> }

\* AllCoinInfo.ToMap(): res[v.Coin] = v for each v in order, a later v replaces
\* an earlier one of the same coin
RECURSIVE ToMap(_)
ToMap(a) ==
    IF a = <<>> THEN NoCoins
    ELSE LET v == a[Len(a)]
         IN  (v.Coin :> v) @@ ToMap(SubSeq(a, 1, Len(a) - 1))

\* s.lock.Lock() goes through without waiting for the holder
CoinLockFree_Always == TRUE

\* s.lock.Lock() goes through: no goroutine holds the lock
CoinLockFree == coinLock = "free"

\* every variable but those of CoinStateWorker and the call counter
coinRest ==
    << AccountInfo, CompletedOrders, WSOrderTracker, now, messages, supVars, connVars,
       timerVars, wdVars, dispVars, epoch, nRead, ideal, pushed, dropped, kaVars,
       lastCall, accVars, marginVars >>

\* update: AllCoinInfo succeeds with the list i, as := i.ToMap()
UpdateFetchOk(i) ==
    /\ updater.pc = "fetch"
    /\ updater' = [updater EXCEPT !.pc = "lock", !.i = i, !.as = ToMap(i), !.err = FALSE]
    /\ UNCHANGED << coinRest, nCalls, snapshot, allState, coinLock, seen >>

\* update: AllCoinInfo fails, the error is logged and update returns
UpdateFetchFail ==
    /\ updater.pc = "fetch"
    /\ updater' = [updater EXCEPT !.pc = "idle", !.err = TRUE, !.built = TRUE]
    /\ UNCHANGED << coinRest, nCalls, snapshot, allState, coinLock, seen >>

\* update: s.lock.Lock()
UpdateLock ==
    /\ updater.pc = "lock"
    /\ coinLock = "free"
    /\ coinLock' = "update"
    /\ updater' = [updater EXCEPT !.pc = "snapshot"]
    /\ UNCHANGED << coinRest, nCalls, snapshot, allState, seen >>

\* update: s.snapshot = i
UpdateSnapshot ==
    /\ updater.pc = "snapshot"
    /\ snapshot' = updater.i
    /\ updater' = [updater EXCEPT !.pc = "allState"]
    /\ UNCHANGED << coinRest, nCalls, allState, coinLock, seen >>

\* update: s.allState = as
UpdateAllState ==
    /\ updater.pc = "allState"
    /\ allState' = updater.as
    /\ updater' = [updater EXCEPT !.pc = "unlock"]
    /\ UNCHANGED << coinRest, nCalls, snapshot, coinLock, seen >>

\* update: the deferred s.lock.Unlock(), update returns
UpdateUnlock ==
    /\ updater.pc = "unlock"
    /\ coinLock' = "free"
    /\ updater' = [updater EXCEPT !.pc = "idle", !.built = TRUE]
    /\ UNCHANGED << coinRest, nCalls, snapshot, allState, seen >>

\* run: the ticker fires, s.update()
RunUpdate ==
    /\ updater.pc = "idle"
    /\ nCalls < MaxCalls
    /\ nCalls' = nCalls + 1
    /\ updater' = [updater EXCEPT !.pc = "fetch"]
    /\ UNCHANGED << coinRest, snapshot, allState, coinLock, seen >>

\* AllInfo(), on the worker NewCoinStateWorker returned: the snapshot read under
\* the lock; the map as it is at that moment is kept with it
AllInfo ==
    /\ updater.built
    /\ CoinLockFree
    /\ seen' = [op |-> "AllInfo", snapshot |-> snapshot, allState |-> allState]
    /\ UNCHANGED << coinRest, nCalls, snapshot, allState, coinLock, updater >>

\* GetOneInfo(asset): the map read under the lock; the snapshot as it is at that
\* moment is kept with it
GetOneInfo(asset) ==
    /\ updater.built
    /\ CoinLockFree
    /\ seen' = [op |-> "GetOneInfo", asset |-> asset, snapshot |-> snapshot,
                ok |-> asset \in DOMAIN allState,
                ci |-> IF asset \in DOMAIN allState THEN allState[asset] ELSE Coin("", 0)]
    /\ UNCHANGED << coinRest, nCalls, snapshot, allState, coinLock, updater >>

\* The update of the constructor and the updates of run, one after the other, and
\* callers of AllInfo and GetOneInfo at any time.
NextCoin ==
    \/ \E i \in FetchedLists : UpdateFetchOk(i)
    \/ UpdateFetchFail
    \/ UpdateLock \/ UpdateSnapshot \/ UpdateAllState \/ UpdateUnlock
    \/ RunUpdate
    \/ AllInfo
    \/ \E asset \in CoinNames : GetOneInfo(asset)

SpecCoin == Init /\ [][NextCoin]_vars

\* ------------------------------------ what the exchange can answer and send
\* A listen key is the sequence of its characters.
ListenKeyStrings ==
    { <<>>, <<"a", "b", "c", "d">>, <<"a", "b", "c", "d", "e">>,
      <<"p", "q", "a", "b", "c", "d", "e">> }

\* the responses to POST /api/v3/userDataStream: status 200 with a listenKey, with
\* no listenKey, with a listenKey that is no string, and a refusal
ListenKeyResponses ==
    { [status |-> 200, body |-> JObject([listenKey |-> JString(k)])] : k \in ListenKeyStrings }
    \cup { [status |-> 200, body |-> JObject([code |-> JNumber(0)])],
           [status |-> 200, body |-> JObject([listenKey |-> JNumber(1)])],
           [status |-> 200, body |-> JArray(<<>>)],
           [status |-> 429, body |-> JObject([code |-> JNumber(1003)])],
           [status |-> 500,
            body |-> JObject([listenKey |-> JString(<<"a", "b", "c", "d", "e">>)])] }

\* the status is not looked at: the body is parsed whatever it is
CreateListenKey_AnyStatus(resp) ==
    IF resp.body.t # "object" THEN [err |-> TRUE, key |-> <<>>]
    ELSE LET f == StringField(resp.body, "listenKey", <<>>)
         IN  [err |-> f.err, key |-> IF f.err THEN <<>> ELSE f.v]

\* Client.CreateListenKey with doRequest: an error for a status other than 200 and
\* for a body json.Unmarshal rejects, else the ListenKey field, "" when it is missing
CreateListenKey(resp) ==
    IF resp.status # 200 THEN [err |-> TRUE, key |-> <<>>]
    ELSE IF resp.body.t # "object" THEN [err |-> TRUE, key |-> <<>>]
    ELSE LET f == StringField(resp.body, "listenKey", <<>>)
         IN  [err |-> f.err, key |-> IF f.err THEN <<>> ELSE f.v]

\* the Go slice expression s[low:]: a run-time panic when low is out of range
SliceFrom(s, low) ==
    IF low < 0 \/ low > Len(s) THEN [panic |-> TRUE, v |-> <<>>]
    ELSE [panic |-> FALSE, v |-> SubSeq(s, low + 1, Len(s))]

\* initWSSession: listenKey[len(listenKey)-5:], the argument of the log call
KeyTail(listenKey) == SliceFrom(listenKey, Len(listenKey) - 5)

\* initWSSession: restClient.CreateListenKey() is answered with resp, the error is
\* returned or the tail of the key is logged
CreateListenKeyResp(resp) ==
    /\ supPc = "createKey"
    /\ LET r == CreateListenKey(resp)
       IN  /\ IF r.err
              THEN supPc' = "sleep3" /\ restOk' = {}
              ELSE IF KeyTail(r.key).panic
              THEN supPc' = "panicked" /\ restOk' = {"listenKey"}
              ELSE /\ epoch < MaxSessions
                   /\ supPc' = "getState"
                   /\ restOk' = {"listenKey"}
           /\ lastCall' = [op |-> "CreateListenKey", resp |-> resp, key |-> r.key,
                           err |-> r.err]
    /\ UNCHANGED << storeVars, CompletedOrders, WSOrderTracker, messages, accountState,
                    orders, readM, connVars, timerVars, wdVars, dispVars, envVars,
                    nCalls, kaVars, accVars, dropped, epoch, nRead, ideal, sideVars >>

\* the outboundAccountPosition frames with a null in the "B" array, and one without
NullFrames ==
    LET e == JString(outboundAccountPosition)
        t == JObject([a |-> JString("BNB"), f |-> JString(Dec(25, 1)),
                      l |-> JString(Dec(0, 8))])
    IN  { RawFrame([e |-> e, B |-> JArray(<<t>>)]),
          RawFrame([e |-> e, B |-> JArray(<<JNull>>)]),
          RawFrame([e |-> e, B |-> JArray(<<t, JNull>>)]),
          RawFrame([e |-> e, B |-> JNull]) }

\* a goroutine has panicked: the process is gone
Panicked == supPc = "panicked" \/ dispPc = "panicked"

\* a step of a process that is still there
Alive(A) == ~Panicked /\ A

\* The worker with every answer CreateListenKey can get and with frames that hold
\* a null; the dispatcher handles a frame once a session is connected.
NextCrash ==
    \/ \E resp \in ListenKeyResponses : Alive(CreateListenKeyResp(resp))
    \/ \E b \in RestBalances : Alive(GetAccountStateOk(b))
    \/ Alive(GetAccountStateFail)
    \/ \E os \in RestOpenOrders : Alive(GetOpenOrdersOk(os))
    \/ Alive(GetOpenOrdersFail)
    \/ Alive(InitSetData) \/ Alive(Sleep3)
    \/ Alive(DialOk) \/ Alive(DialFail)
    \/ Alive(ReadMessageErr)
    \/ Alive(Broken) \/ Alive(ResetTracker)
    \/ \E m \in NullFrames :
          Alive(epoch >= 1 /\ wsConn[epoch] = "open" /\ DispatchPosition(m))

SpecCrash == Init /\ [][NextCrash]_vars

\* ------------------------------- the store under its mutex, with two callers
\* One goroutine calls the mutating methods and one calls the read accessors.
\* A mutating method is taken apart into the steps of its body, so that a caller
\* that did not wait for the mutex would see the store between two of them.
\* The orders of the map are objects: the map holds pointers (refs) into objs,
\* and AccountInfo.OpenOrder is what the map shows when the pointers are followed.

\* ai.mu.Lock() goes through without waiting for the holder
MuFree_Always(m) == TRUE

\* ai.mu.Lock() returns: nobody holds the mutex
MuFree(m) == m = "free"

\* the map with its pointers followed
View(os, rs) == [k \in DOMAIN rs |-> os[rs[k]]]

\* the snapshot initWSSession hands to SetData
AccessSnapshots ==
    { [Balances |-> << RestBalance("BNB", Dec(100, 1)) >>,
       orders |-> << RestOrder("BNBUSDT", 1, "NEW") >>] }

\* the payload of several assets: one asset the store lacks, one it has
AccessPayloads ==
    { << [a |-> "USDT", f |-> Dec(16, 1), l |-> Dec(0, 0)],
         [a |-> "BNB", f |-> Dec(7, 0), l |-> Dec(0, 0)] >> }

AccessEvents ==
    { ExecFrame(TRUE, "BNBUSDT", 1, "PARTIALLY_FILLED", Dec(1, 0), 1),
      ExecFrame(TRUE, "BNBUSDT", 1, "FILLED", Dec(1, 0), 2),
      ExecFrame(TRUE, "BNBUSDT", 2, "NEW", Dec(0, 0), 1) }

AccessDeltas == { DeltaFrame(TRUE, "BNB", Dec(15, 1)) }

\* the mutating calls of the model
MutatorCalls ==
    { [op |-> "SetData", arg |-> d] : d \in AccessSnapshots }
    \cup { [op |-> "UpdateBalance", arg |-> b] : b \in AccessPayloads }
    \cup { [op |-> "UpdateOrder", arg |-> o] : o \in AccessEvents }
    \cup { [op |-> "UpdateBalanceDelta", arg |-> bu] : bu \in AccessDeltas }

\* the read calls of the model
ReaderCalls ==
    { [op |-> "GetAccountState", arg |-> <<>>], [op |-> "OpenOrders", arg |-> <<>>] }
    \cup { [op |-> "OrderStatus", arg |-> << s, i >>] : s \in Symbols, i \in {1} }

\* the store a whole mutating call leaves
Atomic(op, arg, info) ==
    CASE op = "SetData" -> [Balances |-> arg.Balances, OpenOrder |-> OrdersToMap(arg.orders)]
      [] op = "UpdateBalance" -> UpdateBalance(info, arg).info
      [] op = "UpdateOrder" -> UpdateOrder(info, arg).info
      [] op = "UpdateBalanceDelta" -> UpdateBalanceDelta(info, arg).info
      [] OTHER -> info

\* what a read accessor shows of a store
Accessor(op, arg, info) ==
    CASE op = "GetAccountState" -> info.Balances
      [] op = "OpenOrders" -> OpenOrders(info)
      [] op = "OrderStatus" -> OrderStatus(info, arg[1], arg[2])
      [] OTHER -> <<>>

\* the pointers a read accessor returns: none for the copy of GetAccountState,
\* the values of the map for OpenOrders, the matching value for OrderStatus
ReturnedPointers(op, arg, os, rs) ==
    CASE op = "OpenOrders" -> { rs[k] : k \in DOMAIN rs }
      [] op = "OrderStatus" ->
            { rs[k] : k \in { j \in DOMAIN rs :
                                os[rs[j]].Symbol = arg[1] /\ os[rs[j]].OrderID = arg[2] } }
      [] OTHER -> {}

accRest == << workerVars, lastCall >>

\* the mutating method is called and takes the mutex
MLock(c) ==
    /\ mutator.pc = "idle"
    /\ nCalls < MaxCalls
    /\ MuFree(mu)
    /\ mu' = "M"
    /\ mutator' = [pc |-> "body", op |-> c.op, arg |-> c.arg, i |-> 1]
    /\ UNCHANGED << AccountInfo, objs, refs, reader, committed, nCalls, accRest >>

\* SetData: ai.AccountInfo = info, with the objects of the snapshot
MSetData ==
    /\ mutator.pc = "body" /\ mutator.op = "SetData"
    /\ LET os == mutator.arg.orders
           rs == [k \in { UniqOrder(os[j].Symbol, os[j].OrderID) : j \in 1..Len(os) } |->
                    Len(objs) + (CHOOSE j \in 1..Len(os) :
                                    UniqOrder(os[j].Symbol, os[j].OrderID) = k)]
       IN  /\ objs' = objs \o os
           /\ refs' = rs
           /\ AccountInfo' = [Balances |-> mutator.arg.Balances,
                              OpenOrder |-> View(objs', refs')]
    /\ mutator' = [mutator EXCEPT !.pc = "unlock"]
    /\ UNCHANGED << mu, reader, committed, nCalls, accRest >>

\* UpdateBalance: one iteration of its loop over the payload
MUpdateBalanceStep ==
    /\ mutator.pc = "body" /\ mutator.op = "UpdateBalance"
    /\ AccountInfo' = [AccountInfo EXCEPT
                          !.Balances = UpdateOneBalance(@, mutator.arg[mutator.i])]
    /\ mutator' = [mutator EXCEPT !.i = @ + 1,
                      !.pc = IF mutator.i = Len(mutator.arg) THEN "unlock" ELSE "body"]
    /\ UNCHANGED << mu, objs, refs, reader, committed, nCalls, accRest >>

\* UpdateBalanceDelta: its body
MUpdateBalanceDelta ==
    /\ mutator.pc = "body" /\ mutator.op = "UpdateBalanceDelta"
    /\ AccountInfo' = UpdateBalanceDelta(AccountInfo, mutator.arg).info
    /\ mutator' = [mutator EXCEPT !.pc = "unlock"]
    /\ UNCHANGED << mu, objs, refs, reader, committed, nCalls, accRest >>

\* UpdateOrder: the lookup, and the insert of &OpenOrder{} when the key is absent
MUpdateOrderLookup ==
    /\ mutator.pc = "body" /\ mutator.op = "UpdateOrder"
    /\ LET orderID == MakeCompletedOrderID(mutator.arg.s, mutator.arg.i)
       IN  IF orderID \in DOMAIN refs
           THEN UNCHANGED << AccountInfo, objs, refs, sideVars >>
           ELSE /\ objs' = Append(objs, EmptyOrder)
                /\ refs' = refs @@ (orderID :> Len(objs) + 1)
                /\ AccountInfo' = [AccountInfo EXCEPT !.OpenOrder = View(objs', refs')]
    /\ mutator' = [mutator EXCEPT !.pc = "assign"]
    /\ UNCHANGED << mu, reader, committed, nCalls, accRest >>

\* UpdateOrder: the field assignments, made to the object the map points to
MUpdateOrderAssign ==
    /\ mutator.pc = "assign"
    /\ LET orderID == MakeCompletedOrderID(mutator.arg.s, mutator.arg.i)
       IN  /\ objs' = [objs EXCEPT ![refs[orderID]] = AssignOrder(@, mutator.arg)]
           /\ AccountInfo' = [AccountInfo EXCEPT !.OpenOrder = View(objs', refs)]
    /\ mutator' = [mutator EXCEPT !.pc = "terminal"]
    /\ UNCHANGED << mu, refs, reader, committed, nCalls, accRest >>

\* UpdateOrder: the delete of a CANCELED or FILLED order
MUpdateOrderTerminal ==
    /\ mutator.pc = "terminal"
    /\ LET orderID == MakeCompletedOrderID(mutator.arg.s, mutator.arg.i)
       IN  IF IsTerminal(mutator.arg.X)
           THEN /\ refs' = MapRemove(refs, orderID)
                /\ AccountInfo' = [AccountInfo EXCEPT !.OpenOrder = View(objs, refs')]
           ELSE UNCHANGED << AccountInfo, refs, sideVars >>
    /\ mutator' = [mutator EXCEPT !.pc = "unlock"]
    /\ UNCHANGED << mu, objs, reader, committed, nCalls, accRest >>

\* defer ai.mu.Unlock(): the mutating method returns
MUnlock ==
    /\ mutator.pc = "unlock"
    /\ mu' = "free"
    /\ committed' = AccountInfo
    /\ nCalls' = nCalls + 1
    /\ lastCall' = [op |-> mutator.op, arg |-> mutator.arg, before |-> committed,
                    after |-> AccountInfo]
    /\ mutator' = IdleMutator
    /\ UNCHANGED << AccountInfo, objs, refs, reader, workerVars >>

\* a read accessor is called; waited: the store is between two steps of a mutation
RCall(c) ==
    /\ reader.pc = "idle"
    /\ reader' = [IdleReader EXCEPT !.pc = "lock", !.op = c.op, !.arg = c.arg,
                     !.atCall = committed, !.waited = (AccountInfo # committed)]
    /\ UNCHANGED << AccountInfo, mu, objs, refs, mutator, committed, nCalls, accRest >>

\* the read accessor takes the mutex
RLock ==
    /\ reader.pc = "lock"
    /\ MuFree(mu)
    /\ mu' = "R"
    /\ reader' = [reader EXCEPT !.pc = "body"]
    /\ UNCHANGED << AccountInfo, objs, refs, mutator, committed, nCalls, accRest >>

\* the body of the read accessor and its Unlock: GetAccountState copies the
\* balances, OpenOrders and OrderStatus return the pointers of the map
RReturn ==
    /\ reader.pc = "body"
    /\ mu' = IF mu = "R" THEN "free" ELSE mu
    /\ LET ptrs == ReturnedPointers(reader.op, reader.arg, objs, refs)
       IN  reader' = [reader EXCEPT
                !.pc = "done",
                !.ptrs = ptrs,
                !.val = [p \in ptrs |-> objs[p]],
                !.copy = IF reader.op = "GetAccountState" THEN AccountInfo.Balances ELSE <<>>,
                !.seen = Accessor(reader.op, reader.arg, AccountInfo),
                !.none = committed,
                !.all = IF mutator.pc = "idle" THEN committed
                        ELSE Atomic(mutator.op, mutator.arg, committed)]
    /\ UNCHANGED << AccountInfo, objs, refs, mutator, committed, nCalls, accRest >>

\* the caller lets go of what the accessor returned
RDrop ==
    /\ reader.pc = "done"
    /\ reader' = IdleReader
    /\ UNCHANGED << AccountInfo, mu, objs, refs, mutator, committed, nCalls, accRest >>

NextAccess ==
    \/ \E c \in MutatorCalls : MLock(c)
    \/ MSetData \/ MUpdateBalanceStep \/ MUpdateBalanceDelta
    \/ MUpdateOrderLookup \/ MUpdateOrderAssign \/ MUpdateOrderTerminal
    \/ MUnlock
    \/ \E c \in ReaderCalls : RCall(c)
    \/ RLock \/ RReturn \/ RDrop

SpecAccess == Init /\ [][NextAccess]_vars

\* ================================================================== claims
Key1 == MakeCompletedOrderID("BNBUSDT", 1)

IsOpen(info, symbol, id) ==
    \E r \in OpenOrders(info) : r.Symbol = symbol /\ r.OrderID = id

\* the dispatcher takes a step that handles the frame it holds
DispHandles == dispPc = "apply" /\ dispPc' # "apply"

\* C1: a frame that was read from the connection of an earlier session is never
\* applied to the store after the SetData of a later bootstrap: every dispatcher
\* step that changes the store handles a frame of the session of the last SetData.
C1_NoStaleFrameApplied ==
    [][(DispHandles /\ AccountInfo' # AccountInfo) => dispM.epoch = epoch]_vars

\* C2: a frame that fails to parse is discarded and the dispatcher goes on with
\* the later frames: processMessages never returns.
C2_DispatcherNeverStops == dispPc # "returned"

\* C3: while the dispatcher handles a FILLED or CANCELED report, the order is at
\* every instant in the open-order map or in the completed-order cache.
C3_OrderAlwaysFindable ==
    dispPc = "set" =>
        LET key == MakeCompletedOrderID(dispOrder.Symbol, dispOrder.OrderID)
        IN  key \in DOMAIN AccountInfo.OpenOrder \/ key \in DOMAIN CompletedOrders

\* entry u has left the tracking list
Untracked(u) == \A i \in 1..Len(WSOrderTracker) : WSOrderTracker[i].uid # u

\* C4 (as stated): an order that was pushed, for which no report was dispatched and
\* whose age reached OrderTrackMillis, causes exactly one forced closure: once it
\* is off the tracking list the watchdog has closed a connection for it, once.
C4_ExactlyOneClosure ==
    \A u \in 1..Len(pushed) :
        /\ closures[u] <= 1
        /\ ( /\ now - pushed[u].ts >= OrderTrackMillis
             /\ seenStatus[pushed[u].id] = {}
             /\ Untracked(u) ) => closures[u] = 1

\* C4 (amended): a tracked entry causes at most one forced closure, of the
\* connection of one session only, and only when its age has reached
\* OrderTrackMillis.
C4_AtMostOneClosure ==
    \A u \in DOMAIN closures :
        /\ closures[u] <= 1
        /\ closures[u] = 1 =>
              u <= Len(pushed) /\ now - pushed[u].ts >= OrderTrackMillis

\* the watchdog closed the connection of session 1 for an entry, and session 2
\* is streaming with its own watchdog
C4_Witness ==
    /\ closures[1] = 1
    /\ MaxSessions >= 2 /\ wsConn[2] = "open" /\ wdPc[2] \in {"wait", "peek"}

\* C5: a push onto the messages channel succeeds or is abandoned when the timer
\* fires, and the loop returns to reading, whatever the dispatcher does.
C5_PushNeverBlocks == (supPc = "select") ~> (supPc = "read")

\* the channel is full, a frame was dropped and the reader is reading again
C5_Witness == Len(messages) = ChanCap /\ dropped >= 1 /\ supPc = "read"

\* C6: when the channel is empty and the dispatcher idle (the reader holding no
\* frame it has yet to push), the store is the last bootstrap snapshot with every
\* frame read since then applied in read order.
C6_StoreIsSnapshotPlusFrames ==
    (messages = <<>> /\ dispPc = "recv" /\ supPc # "select") => AccountInfo = ideal

\* C7: frames are dispatched in the order in which they were read: the dispatcher
\* receives frames with increasing read numbers.
C7_DispatchInReadOrder == [][lastSeq' # lastSeq => lastSeq' > lastSeq]_vars

\* two reports for the same order were read and dispatched, NEW and FILLED
C7_Witness ==
    /\ lastSeq = 2 /\ dropped = 0
    /\ seenStatus[Key1] = {"NEW", "FILLED"}
    /\ Key1 \in DOMAIN CompletedOrders

AllRest == {"listenKey", "accountState", "openOrders"}

\* C8: a failing step of initWSSession leaves the store as it was and calls no
\* SetData; SetData is called only after the three REST calls of this call
\* succeeded, with the balances and the open orders they returned.
C8_BootstrapAllOrNothing ==
    [][ /\ (supPc \in {"createKey", "getState", "getOrders"} /\ supPc' = "sleep3")
            => (AccountInfo' = AccountInfo /\ epoch' = epoch)
        /\ (epoch' # epoch)
            => /\ supPc = "setData" /\ restOk = AllRest
               /\ AccountInfo' = [Balances |-> accountState,
                                  OpenOrder |-> OrdersToMap(orders)]
        /\ (supPc' = "setData") => (restOk' = AllRest) ]_vars

\* GetOpenOrders failed after a frame of an earlier session changed the store
C8_Witness ==
    /\ supPc = "sleep3" /\ restOk = {"listenKey", "accountState"}
    /\ epoch >= 1
    /\ AccountInfo \notin BootstrapInfos

\* C9: when a NEW report is dispatched the order is returned by OpenOrders();
\* when a FILLED report for it is dispatched the order is no longer returned by
\* OpenOrders(), and the completed-order cache then holds it with status FILLED.
C9_NewThenFilled ==
    [][ /\ (DispHandles /\ dispM.m.e = executionReport /\ dispM.m.ok)
            => /\ dispM.m.X = "NEW" =>
                    \E r \in OpenOrders(AccountInfo') :
                        r.Symbol = dispM.m.s /\ r.OrderID = dispM.m.i /\ r.Status = "NEW"
               /\ dispM.m.X = "FILLED" =>
                    /\ ~IsOpen(AccountInfo', dispM.m.s, dispM.m.i)
                    /\ dispPc' = "set"
        /\ (dispPc = "set" /\ dispPc' # "set" /\ dispM.m.X = "FILLED")
            => LET key == MakeCompletedOrderID(dispM.m.s, dispM.m.i)
               IN  /\ key \in DOMAIN CompletedOrders'
                   /\ CompletedOrders'[key].Status = "FILLED"
                   /\ CompletedOrders'[key].Symbol = dispM.m.s
                   /\ CompletedOrders'[key].OrderID = dispM.m.i ]_vars

\* NEW was dispatched, then FILLED: the order is off the map and in the cache
C9_Witness ==
    /\ dispPc = "untrack" /\ dispM.m.e = executionReport /\ dispM.m.X = "FILLED"
    /\ "NEW" \in seenStatus[Key1]
    /\ ~IsOpen(AccountInfo, "BNBUSDT", 1)
    /\ Key1 \in DOMAIN CompletedOrders /\ CompletedOrders[Key1].Status = "FILLED"

\* C10: UpdateOrder returns removed = TRUE exactly for FILLED and CANCELED; then
\* the map has no entry for the order and the returned record carries the fields
\* of the event; otherwise the map holds exactly one record for the order, with
\* the status of the event.
C10_UpdateOrderResult ==
    lastCall.op = "UpdateOrder" =>
        LET o == lastCall.arg
            key == MakeCompletedOrderID(o.s, o.i)
            recs == {k \in DOMAIN AccountInfo.OpenOrder :
                        /\ AccountInfo.OpenOrder[k].Symbol = o.s
                        /\ AccountInfo.OpenOrder[k].OrderID = o.i}
        IN  /\ lastCall.removed = (o.X \in {"FILLED", "CANCELED"})
            /\ ~lastCall.err
            /\ lastCall.removed =>
                  /\ key \notin DOMAIN AccountInfo.OpenOrder
                  /\ recs = {}
                  /\ lastCall.order.Symbol = o.s /\ lastCall.order.OrderID = o.i
                  /\ lastCall.order.Status = o.X
                  /\ lastCall.order.ExecutedQty = o.z
                  /\ lastCall.order.UpdateTime = o.E
            /\ ~lastCall.removed =>
                  /\ recs = {key}
                  /\ AccountInfo.OpenOrder[key].Status = o.X

\* a CANCELED report removed an order of the bootstrap snapshot
C10_Witness ==
    /\ lastCall.op = "UpdateOrder" /\ lastCall.removed
    /\ lastCall.arg.X = "CANCELED"
    /\ MakeCompletedOrderID(lastCall.arg.s, lastCall.arg.i)
           \in DOMAIN lastCall.before.OpenOrder

\* the assets a balance list names
AssetsOf(balances) == { balances[i].Asset : i \in 1..Len(balances) }

\* the entries of a balance list for an asset
EntriesOf(balances, a) == { i \in 1..Len(balances) : balances[i].Asset = a }

\* the last tuple of a payload for an asset it names
LastTuple(payload, a) ==
    payload[CHOOSE i \in 1..Len(payload) :
                /\ payload[i].a = a
                /\ \A j \in 1..Len(payload) : payload[j].a = a => j <= i]

\* C11: UpdateBalance keeps at most one entry per asset, adds the assets that were
\* not present, gives every asset the payload names the free and locked values of
\* the last tuple applied for it, and leaves the other assets as they were.
C11_UpdateBalanceNoDuplicates ==
    /\ \A a \in Assets : Cardinality(EntriesOf(AccountInfo.Balances, a)) <= 1
    /\ lastCall.op = "UpdateBalance" =>
          LET named == { lastCall.arg[i].a : i \in 1..Len(lastCall.arg) }
              old == lastCall.before.Balances
              new == AccountInfo.Balances
          IN  /\ ~lastCall.err
              /\ AssetsOf(new) = AssetsOf(old) \cup named
              /\ \A a \in named :
                    \E i \in EntriesOf(new, a) :
                        /\ new[i].Free = LastTuple(lastCall.arg, a).f
                        /\ new[i].Locked = LastTuple(lastCall.arg, a).l
              /\ \A i \in 1..Len(old) : old[i].Asset \notin named => new[i] = old[i]

\* a payload that names a new asset twice, with two free values
C11_Witness ==
    /\ lastCall.op = "UpdateBalance" /\ Len(lastCall.arg) = 2
    /\ lastCall.arg[1].a = lastCall.arg[2].a /\ lastCall.arg[1].f # lastCall.arg[2].f
    /\ lastCall.arg[1].a \notin AssetsOf(lastCall.before.Balances)
    /\ lastCall.before.Balances # <<>>

Max(a, b) == IF a > b THEN a ELSE b

\* decimal r is exactly the sum of the decimals f and d
IsSum(r, f, d) ==
    LET S == Max(r.s, Max(f.s, d.s))
    IN  r.m * Pow10(S - r.s) = f.m * Pow10(S - f.s) + d.m * Pow10(S - d.s)

\* C13: UpdateBalanceDelta with a well-formed delta for an asset that is present
\* with a well-formed free amount sets that free amount to the exact sum and
\* changes nothing else: not the locked amount, not another asset, not the orders.
C13_DeltaIsExactSum ==
    (lastCall.op = "UpdateBalanceDelta") =>
        LET old == lastCall.before.Balances
            new == AccountInfo.Balances
            i == IndexOfAsset(old, lastCall.arg.a)
        IN  (i # 0 /\ lastCall.arg.d[1] /\ old[i].Free[1]) =>
               /\ ~lastCall.err
               /\ Len(new) = Len(old)
               /\ new[i].Free[1]
               /\ IsSum(NewFromString(new[i].Free), NewFromString(old[i].Free),
                        NewFromString(lastCall.arg.d))
               /\ new[i].Asset = old[i].Asset /\ new[i].Locked = old[i].Locked
               /\ \A j \in 1..Len(old) : j # i => new[j] = old[j]
               /\ AccountInfo.OpenOrder = lastCall.before.OpenOrder

\* "10.0" and "1.5" give "11.5", and a later "-1.5" gives "10"
C13_Witness ==
    /\ lastCall.op = "UpdateBalanceDelta" /\ lastCall.arg.d = Dec(-15, 1)
    /\ \E i \in 1..Len(AccountInfo.Balances) :
          /\ AccountInfo.Balances[i].Asset = lastCall.arg.a
          /\ lastCall.before.Balances[i].Free = Dec(115, 1)
          /\ AccountInfo.Balances[i].Free = Dec(10, 0)

\* C14: UpdateBalanceDelta for an asset that is not in the balance list returns no
\* error and leaves the store unchanged, and no UpdateBalanceDelta adds an asset.
C14_DeltaUnknownAssetNoOp ==
    (lastCall.op = "UpdateBalanceDelta") =>
        /\ AssetsOf(AccountInfo.Balances) = AssetsOf(lastCall.before.Balances)
        /\ Len(AccountInfo.Balances) = Len(lastCall.before.Balances)
        /\ (lastCall.arg.a \notin AssetsOf(lastCall.before.Balances)) =>
              (~lastCall.err /\ AccountInfo = lastCall.before)

\* a well-formed delta for an asset the list does not name, other assets present
C14_Witness ==
    /\ lastCall.op = "UpdateBalanceDelta" /\ lastCall.arg.d = Dec(15, 1)
    /\ lastCall.arg.a \notin AssetsOf(lastCall.before.Balances)
    /\ lastCall.before.Balances # <<>>

\* C15: UpdateBalanceDelta returns an error for every event whose delta is no
\* decimal string, whether the asset is present or not, and the store is
\* unchanged whenever it returns an error.
C15_MalformedDeltaFails ==
    (lastCall.op = "UpdateBalanceDelta") =>
        /\ ~lastCall.arg.d[1] => lastCall.err
        /\ lastCall.err => AccountInfo = lastCall.before

\* the "B" field of frame m is an array of {a, f, l} tuples of strings
IsTupleArray(m) ==
    /\ "B" \in DOMAIN m.v /\ m.v["B"].t = "array"
    /\ \A i \in 1..Len(m.v["B"].v) :
          LET el == m.v["B"].v[i]
          IN  /\ el.t = "object" /\ DOMAIN el.v = {"a", "f", "l"}
              /\ \A k \in DOMAIN el.v : el.v[k].t = "string"

\* C12: for a frame whose "B" is an array of {a, f, l} tuples parseAccountBalance
\* returns the tuples in frame order with the strings unchanged, and after the
\* dispatch the store holds for each listed asset one balance with the free and
\* locked strings the frame gives it (those of the last tuple for the asset).
C12_PositionFrameDispatched ==
    (lastCall.op = "DispatchPosition" /\ IsTupleArray(lastCall.arg)) =>
        LET B == lastCall.arg.v["B"].v
            new == AccountInfo.Balances
        IN  /\ ~lastCall.err
            /\ Len(lastCall.balance) = Len(B)
            /\ \A i \in 1..Len(B) :
                  /\ lastCall.balance[i].a = B[i].v["a"].v
                  /\ lastCall.balance[i].f = B[i].v["f"].v
                  /\ lastCall.balance[i].l = B[i].v["l"].v
            /\ \A i \in 1..Len(B) :
                  LET last == CHOOSE j \in 1..Len(B) :
                                /\ B[j].v["a"].v = B[i].v["a"].v
                                /\ \A k \in 1..Len(B) :
                                      B[k].v["a"].v = B[i].v["a"].v => k <= j
                  IN  /\ Cardinality(EntriesOf(new, B[i].v["a"].v)) = 1
                      /\ \A n \in EntriesOf(new, B[i].v["a"].v) :
                            /\ new[n].Free = B[last].v["f"].v
                            /\ new[n].Locked = B[last].v["l"].v

\* the frame of the test: BNB with free "1.60268308" and locked "0.00000000",
\* then USDT, dispatched onto a store that listed BNB with "10.0"
C12_Witness ==
    /\ lastCall.op = "DispatchPosition" /\ IsTupleArray(lastCall.arg)
    /\ Len(lastCall.balance) = 2
    /\ lastCall.balance[1] = [a |-> "BNB", f |-> Dec(160268308, 8), l |-> Dec(0, 8)]
    /\ lastCall.balance[2].a = "USDT"
    /\ \E i \in 1..Len(AccountInfo.Balances) :
          /\ AccountInfo.Balances[i] =
                [Asset |-> "BNB", Free |-> Dec(160268308, 8), Locked |-> Dec(0, 8)]
          /\ lastCall.before.Balances[i].Free = Dec(100, 1)

\* C17: OrderStatus returns the not-found error exactly when the open-order map
\* holds no order with the symbol and the order id, otherwise the record of that
\* symbol and id; it returns the error for an order that the UpdateOrder just
\* before it removed (FILLED or CANCELED).
C17_OrderStatusNotFound ==
    (lastCall.op = "OrderStatus") =>
        LET hits == { k \in DOMAIN AccountInfo.OpenOrder :
                        /\ AccountInfo.OpenOrder[k].Symbol = lastCall.arg.s
                        /\ AccountInfo.OpenOrder[k].OrderID = lastCall.arg.i }
        IN  /\ lastCall.err = (hits = {})
            /\ ~lastCall.err => \E k \in hits : lastCall.order = AccountInfo.OpenOrder[k]
            /\ lastCall.removedBefore = << lastCall.arg.s, lastCall.arg.i >> => lastCall.err
            /\ AccountInfo = lastCall.before

\* the query follows the FILLED or CANCELED report that removed the order, while
\* another order is still open
C17_Witness ==
    /\ lastCall.op = "OrderStatus" /\ lastCall.err
    /\ lastCall.removedBefore = << lastCall.arg.s, lastCall.arg.i >>
    /\ AccountInfo.OpenOrder # EmptyMap

\* the subscribeDataStream call of session s has returned
SessionEnded(s) ==
    \/ s < epoch
    \/ s = epoch /\ supPc \notin {"dial", "read", "select", "stopTimer", "drain"}

\* C19: once the subscribeDataStream call of a session has returned, no
\* KeepListenKeyAlive call is issued for the listen key of that session.
C19_NoKeepAliveAfterSessionEnd ==
    [][\A s \in Sessions : (kaLog'[s] # kaLog[s]) => ~SessionEnded(s)]_vars

\* C20: a failed KeepListenKeyAlive call closes no connection, ends no session,
\* changes neither the store nor the ticker, and leaves the goroutine waiting for
\* the next tick, on which it calls again for the same listen key.
C20_FailedKeepAliveIsHarmless ==
    [][\A s \in Sessions :
          (kaLog'[s] = Append(kaLog[s], "fail")) =>
              /\ UNCHANGED << AccountInfo, wsConn, quit, supPc, epoch, kaActive, kaC,
                              WSOrderTracker, messages >>
              /\ kaPc'[s] = "wait"]_vars

\* a call failed and the next tick brought another call for the same key, while
\* the session is streaming
C20_Witness ==
    \E s \in Sessions :
        /\ Len(kaLog[s]) = 2 /\ kaLog[s][1] = "fail"
        /\ wsConn[s] = "open" /\ ~SessionEnded(s) /\ kaActive[s]

\* what the caller finds now when it follows the pointers an accessor returned
Deref == [p \in reader.ptrs |-> objs[p]]

\* C16: the values the read accessors return are defensive copies: while the
\* caller holds what an accessor returned, every record it was given still has
\* the fields it had when the accessor returned, whatever UpdateOrder,
\* UpdateBalance, UpdateBalanceDelta or SetData did since.
C16_ReturnedValuesAreCopies ==
    reader.pc = "done" => Deref = reader.val

Leaves(u) == ~Untracked(u) /\ Untracked(u)'

\* the step is the dispatcher's Remove for the order of entry u
ConfirmStep(u) ==
    /\ dispPc = "untrack"
    /\ MakeCompletedOrderID(dispM.m.s, dispM.m.i) = pushed[u].id

\* C22 (as stated): an entry leaves the tracking list only when a report for its
\* order is dispatched or after the watchdog closed a connection for it, its age
\* having reached the bound; and no entry stays on the list forever.
C22_LeavesByConfirmOrEscalation ==
    /\ [][\A u \in 1..Len(pushed) :
            Leaves(u) =>
               \/ ConfirmStep(u)
               \/ closures[u] >= 1 /\ now - pushed[u].ts >= OrderTrackMillis]_vars
    /\ \A u \in 1..MaxPush : (u <= Len(pushed) /\ ~Untracked(u)) ~> Untracked(u)

\* C22 (amended): an entry leaves the tracking list only by the dispatcher's
\* Remove for its order or by the Reset of Run after subscribeDataStream has
\* returned, whatever made it return; and an entry whose age has reached the
\* bound while a session is connected does not stay on the list.
C22_LeavesByConfirmOrReset ==
    /\ [][\A u \in 1..Len(pushed) :
            Leaves(u) => (ConfirmStep(u) \/ supPc = "reset")]_vars
    /\ \A u \in 1..MaxPush :
          ( /\ u <= Len(pushed) /\ ~Untracked(u)
            /\ now - pushed[u].ts >= OrderTrackMillis
            /\ epoch >= 1 /\ wsConn[epoch] = "open" ) ~> Untracked(u)

\* an entry left the list by the Reset that followed a closure by the watchdog,
\* and no report for its order was dispatched
C22_Witness ==
    /\ Len(pushed) >= 1 /\ Untracked(1)
    /\ closures[1] = 1 /\ seenStatus[pushed[1].id] = {}
    /\ supPc = "createKey"

\* C23: no REST response and no stream frame makes the supervisor goroutine or
\* the dispatcher goroutine panic: initWSSession returns for every listen key a
\* successful CreateListenKey gives it, and every frame is handled or rejected.
C23_NoGoroutinePanics == ~Panicked

\* the tracking list holds an entry for the order
Tracked(list, id) == \E i \in 1..Len(list) : list[i].id = id

C25_ClosesOnlyWhenBoundExceeded ==
    [][\A s \in Sessions :
         (wdPc[s] = "peek" /\ wdPc'[s] # "peek") =>
            IF WSOrderTracker # <<>> /\ now - Head(WSOrderTracker).ts > OrderTrackMillis
            THEN wdPc'[s] = "close"
            ELSE wdPc'[s] = "wait" /\ wsConn' = wsConn]_vars

\* C26: the keepalive ticker is started and the WebSocket dialed only after
\* initWSSession has succeeded and called SetData in the same iteration: the
\* supervisor comes to the dial only by the SetData that follows three successful
\* REST calls, the ticker and the connection it then creates are those of that
\* SetData and did not exist before, and after a failed initWSSession the
\* supervisor goes back to initWSSession without creating either.
C26_DialOnlyAfterSetData ==
    [][ /\ (supPc # "dial" /\ supPc' = "dial") =>
              /\ supPc = "setData" /\ restOk = AllRest
              /\ epoch' = epoch + 1
              /\ AccountInfo' = [Balances |-> accountState,
                                 OpenOrder |-> OrdersToMap(orders)]
              /\ wsConn[epoch'] = "none" /\ kaPc[epoch'] = "none"
        /\ \A s \in Sessions :
              (kaActive'[s] /\ ~kaActive[s]) \/ (wsConn[s] = "none" /\ wsConn'[s] # "none")
                 => supPc = "dial" /\ s = epoch /\ kaPc[s] = "none" /\ wsConn[s] = "none"
        /\ (supPc = "dial" /\ supPc' # "dial") => kaActive'[epoch] /\ ~kaActive[epoch]
        /\ (supPc = "sleep3" /\ supPc' # "sleep3") =>
              supPc' = "createKey" /\ kaActive' = kaActive /\ wsConn' = wsConn ]_vars

\* the second session is connected with its ticker running, after the first was
\* closed: two SetData calls, two connections
C26_Witness ==
    /\ epoch = 2 /\ supPc = "read"
    /\ wsConn[1] = "closed" /\ wsConn[2] = "open"
    /\ ~kaActive[1] /\ kaActive[2]

\* where the supervisor is inside subscribeDataStream
InStream == {"dial", "read", "select", "stopTimer", "drain"}

\* C27: subscribeDataStream returns only with an error, from the dial or from a
\* read that failed; on a return after a successful dial the connection is closed
\* and quit is set, on a return from the dial there is no connection; and a frame
\* is pushed onto messages only by the session that is still reading, so none is
\* pushed after the read that failed.
C27_StreamReturnsOnlyWithError ==
    [][ /\ (supPc \in InStream /\ supPc' \notin InStream) =>
              /\ supPc' = "broken" /\ supPc \in {"dial", "read"}
              /\ supPc = "read" => wsConn'[epoch] = "closed" /\ quit'[epoch] = 1
              /\ supPc = "dial" => wsConn'[epoch] = "none" /\ quit'[epoch] = 0
        /\ (supPc' = "broken" /\ supPc # "broken") => supPc \in InStream
        /\ (\E i \in 1..Len(messages') : messages'[i] \notin
                  { messages[j] : j \in 1..Len(messages) }) =>
              /\ supPc = "select" /\ quit[epoch] = 0
              /\ messages' = Append(messages, [m |-> readM, epoch |-> epoch, seq |-> nRead])
        /\ \A s \in Sessions : quit[s] = 1 => quit'[s] = 1 /\ wsConn'[s] = "closed" ]_vars

\* the session has ended on a read error after it had read a frame that is still
\* in the channel
C27_Witness ==
    /\ supPc = "broken" /\ epoch >= 1
    /\ wsConn[epoch] = "closed" /\ quit[epoch] = 1
    /\ messages # <<>> /\ messages[Len(messages)].epoch = epoch

\* the sessions whose keepalive goroutine has been started and has not returned
LiveKeepAlive == { s \in Sessions : kaPc[s] \in {"wait", "call"} }

\* C28: the keepalive goroutines stay bounded over the reconnects: the supervisor
\* runs one session at a time, and the goroutine of a session has terminated
\* before the supervisor starts the next one, so at most one is alive.
C28_KeepAliveGoroutinesBounded == Cardinality(LiveKeepAlive) <= 1

\* the event types processMessages has a case for
KnownEvents == {outboundAccountPosition, balanceUpdate, executionReport}

\* C29: when the dispatcher handles a frame whose "e" is a string other than the
\* three event types, the store, the completed-order cache and the tracking list
\* are left as they were, and the dispatcher is back at the receive of the next
\* frame, the channel untouched.
C29_UnknownEventIgnored ==
    [][ (dispPc = "apply" /\ dispM.m.e \notin KnownEvents \cup {NoE} /\ dispPc' # dispPc) =>
            /\ AccountInfo' = AccountInfo
            /\ CompletedOrders' = CompletedOrders
            /\ WSOrderTracker' = WSOrderTracker
            /\ messages' = messages
            /\ dispPc' = "recv" ]_vars

\* the last frame read was of an unknown type and the dispatcher has handled it,
\* while the store, the cache and the tracking list all held something
C29_Witness ==
    /\ dispPc = "recv" /\ messages = <<>> /\ supPc = "read"
    /\ nRead = 2 /\ lastSeq = nRead /\ readM \in UnknownFrames
    /\ WSOrderTracker # <<>>
    /\ DOMAIN CompletedOrders # {}
    /\ AccountInfo.Balances # <<>>

\* the balances and the open orders a store holds
Holding(info) == << info.Balances, DOMAIN info.OpenOrder, OpenOrders(info) >>

\* C30: after SetData(info) the store holds the balances and the open orders of
\* info and nothing else; GetAccountState then returns the balances of info and
\* OpenOrders the orders of info, whatever the store held before.
C30_SetDataReplaces ==
    /\ lastCall.op = "SetData" => Holding(AccountInfo) = Holding(lastCall.arg)
    /\ lastCall.op = "GetAccountState" /\ lastCall.set # <<>> =>
          lastCall.state = lastCall.set[1].info.Balances
    /\ lastCall.op = "OpenOrders" /\ lastCall.set # <<>> =>
          lastCall.orders = OpenOrders(lastCall.set[1].info)

\* OpenOrders was called after a SetData whose info names neither an open order
\* nor a balance that the store held, and returned the one order of info
C30_Witness ==
    /\ lastCall.op = "OpenOrders" /\ lastCall.set # <<>>
    /\ LET info == lastCall.set[1].info
           prev == lastCall.set[1].prev
       IN  /\ DOMAIN prev.OpenOrder \ DOMAIN info.OpenOrder # {}
           /\ AssetsOf(prev.Balances) \ AssetsOf(info.Balances) # {}
           /\ Cardinality(lastCall.orders) = 1
           /\ AssetsOf(AccountInfo.Balances) = AssetsOf(info.Balances)

\* C31: for a response whose status is not 2xx CreateListenKey returns an error
\* and the empty key, and initWSSession returns the error: the supervisor goes to
\* its 3 s sleep with no REST call counted for the session, the store, the
\* account state and the orders in hand untouched, and from the sleep it only
\* goes back to CreateListenKey.
C31_ListenKeyRefusedStopsBootstrap ==
    [][ /\ (supPc = "createKey" /\ supPc' # "createKey"
              /\ lastCall'.resp.status \notin 200..299) =>
              /\ lastCall'.err /\ lastCall'.key = <<>>
              /\ supPc' = "sleep3" /\ restOk' = {}
              /\ AccountInfo' = AccountInfo
              /\ accountState' = accountState /\ orders' = orders
        /\ (supPc = "sleep3" /\ supPc' # "sleep3") =>
              supPc' = "createKey" /\ AccountInfo' = AccountInfo /\ restOk' = restOk ]_vars

\* the listen key of a second session was refused, with a well-formed key in the
\* body, while the store holds the snapshot of the first session
C31_Witness ==
    /\ lastCall.op = "CreateListenKey" /\ lastCall.resp.status = 500
    /\ lastCall.err /\ lastCall.key = <<>>
    /\ supPc = "sleep3" /\ epoch = 1 /\ restOk = {}
    /\ AccountInfo.Balances # <<>>

\* the records of a store for the order (symbol, id)
OrderEntries(info, symbol, id) ==
    { k \in DOMAIN info.OpenOrder :
        info.OpenOrder[k].Symbol = symbol /\ info.OpenOrder[k].OrderID = id }

C33_WatchdogClosesOwnSession ==
    [][\A s \in Sessions :
          /\ (wsConn[s] = "open" /\ wsConn'[s] # "open") =>
                \/ wdPc[s] = "close" /\ wdPc'[s] = "done"
                \/ s = epoch /\ supPc = "read" /\ supPc' = "broken"
          /\ (wdPc[s] = "close" /\ wdPc'[s] # "close") =>
                /\ wsConn'[s] = "closed"
                /\ \A t \in Sessions \ {s} : wsConn'[t] = wsConn[t] ]_vars

\* the checkOrder goroutine of the ended session 1 is about to close its
\* connection while session 2 is connected
C33_Witness ==
    /\ epoch = 2 /\ wsConn[2] = "open" /\ supPc = "read"
    /\ wdPc[1] = "close" /\ wsConn[1] = "closed" /\ quit[1] = 1

\* the sessions whose checkOrder goroutine has been started and has not returned
LiveWatchdogs == { s \in Sessions : wdPc[s] \in {"wait", "peek", "close"} }

\* C34: every checkOrder goroutine terminates: the goroutine that is at its Close
\* returns, and the goroutine of a session whose subscribeDataStream has returned
\* and set quit returns, on the tick on which it finds quit set; so the live
\* goroutines are, in the end, at most the one of the session that is connected.
C34_WatchdogTerminates ==
    /\ \A s \in Sessions : (wdPc[s] = "close") ~> (wdPc[s] = "done")
    /\ \A s \in Sessions : (quit[s] = 1 /\ s \in LiveWatchdogs) ~> (wdPc[s] = "done")
    /\ [][\A s \in Sessions :
            /\ (wdPc[s] = "wait" /\ quit[s] = 1 /\ wdPc'[s] # "wait") => wdPc'[s] = "done"
            /\ (wdPc[s] = "done") => wdPc'[s] = "done"]_vars
    /\ []<>(LiveWatchdogs \subseteq {epoch})

\* both sessions have ended and both checkOrder goroutines have returned, the
\* first one after its session was over
C34_Witness ==
    /\ epoch = 2 /\ quit[1] = 1 /\ quit[2] = 1
    /\ wdPc[1] = "done" /\ wdPc[2] = "done"
    /\ wsConn[1] = "closed" /\ wsConn[2] = "closed"

\* C35: when the dispatcher applies a FILLED or CANCELED report for an order the
\* open-order map does not hold, UpdateOrder leaves the store as it was and
\* returns removed with a record built from the event alone, and the dispatcher
\* then stores that record in the completed-order cache under the order's key.
C35_TerminalForUnknownOrder ==
    [][ /\ ( /\ dispPc = "apply" /\ dispPc' # "apply"
             /\ dispM.m.e = executionReport /\ dispM.m.ok
             /\ dispM.m.X \in {"FILLED", "CANCELED"}
             /\ MakeCompletedOrderID(dispM.m.s, dispM.m.i) \notin DOMAIN AccountInfo.OpenOrder ) =>
              /\ AccountInfo' = AccountInfo
              /\ dispPc' = "set"
              /\ dispOrder' = AssignOrder(EmptyOrder, dispM.m)
              /\ CompletedOrders' = CompletedOrders
        /\ (dispPc = "set" /\ dispPc' # "set") =>
              /\ MakeCompletedOrderID(dispM.m.s, dispM.m.i) \in DOMAIN CompletedOrders'
              /\ CompletedOrders'[MakeCompletedOrderID(dispM.m.s, dispM.m.i)] = dispOrder
              /\ AccountInfo' = AccountInfo ]_vars

\* the CANCELED report of order 2, which the store never held, is in the cache
\* while the store still holds order 1 of the bootstrap
C35_Witness ==
    /\ MakeCompletedOrderID("BNBUSDT", 2) \in DOMAIN CompletedOrders
    /\ CompletedOrders[MakeCompletedOrderID("BNBUSDT", 2)].Status = "CANCELED"
    /\ DOMAIN AccountInfo.OpenOrder = { UniqOrder("BNBUSDT", 1) }
    /\ epoch = 1 /\ dispPc = "untrack"

\* the key of the order the last UpdateOrder call was about
LastKey == MakeCompletedOrderID(lastCall.arg.s, lastCall.arg.i)

\* C36: after a non-terminal execution report has been applied, the stored record
\* of the order has the status, the executed quantity and the update time of that
\* report, whatever the record held before, and the other orders are as before.
C36_LastWriterWins ==
    lastCall.op = "UpdateOrder" /\ ~IsTerminal(lastCall.arg.X) =>
        /\ LastKey \in DOMAIN AccountInfo.OpenOrder
        /\ AccountInfo.OpenOrder[LastKey].Status = lastCall.arg.X
        /\ AccountInfo.OpenOrder[LastKey].ExecutedQty = lastCall.arg.z
        /\ AccountInfo.OpenOrder[LastKey].UpdateTime = lastCall.arg.E
        /\ lastCall.order = AccountInfo.OpenOrder[LastKey]
        /\ \A k \in DOMAIN lastCall.before.OpenOrder \ {LastKey} :
              k \in DOMAIN AccountInfo.OpenOrder
              /\ AccountInfo.OpenOrder[k] = lastCall.before.OpenOrder[k]

\* a NEW report with event time 1 and nothing filled was applied to a record that
\* was PARTIALLY_FILLED at event time 2, and the record is NEW again
C36_Witness ==
    /\ lastCall.op = "UpdateOrder" /\ lastCall.arg.X = "NEW" /\ lastCall.arg.E = 1
    /\ LastKey \in DOMAIN lastCall.before.OpenOrder
    /\ lastCall.before.OpenOrder[LastKey].Status = "PARTIALLY_FILLED"
    /\ lastCall.before.OpenOrder[LastKey].UpdateTime = 2
    /\ lastCall.before.OpenOrder[LastKey].ExecutedQty = Dec(1, 0)
    /\ AccountInfo.OpenOrder[LastKey].Status = "NEW"
    /\ AccountInfo.OpenOrder[LastKey].UpdateTime = 1
    /\ AccountInfo.OpenOrder[LastKey].ExecutedQty = Dec(0, 0)

\* C37: GetAccountInfo answers from the cache, with no REST call, only with an
\* entry of the account that was stored at most cachedValidDuration before;
\* otherwise it fetches. A failed fetch returns the error and no details and
\* leaves both maps as they are; an id that is no account gets an error, and
\* never an entry in either map.
C37_CacheNeverStale ==
    /\ [](\A c \in Callers :
            getters[c].pc = "done" =>
              LET g == getters[c]
              IN  /\ g.out.cached =>
                        /\ ~g.out.err /\ ~g.out.rest /\ g.ok /\ g.out.ai = g.ai
                        /\ g.out.at - g.out.ai.storedAt <= cachedValidDuration
                  /\ ~g.out.cached /\ g.id \in AccountIDs => g.out.rest
                  /\ g.out.err => g.out.ai = 0
                  /\ g.id \in UnknownIDs => g.out.err)
    /\ [](\A id \in UnknownIDs :
            id \notin DOMAIN accountDetails /\ id \notin DOMAIN accountsLastUpdate)
    /\ [][\A c \in Callers :
            /\ (getters[c].pc = "check" /\ getters'[c].pc = "done") =>
                  getters[c].ok /\ now - getters[c].ai.storedAt <= cachedValidDuration
            /\ (getters[c].pc = "check" /\ getters'[c].pc = "fetch") =>
                  ~(getters[c].ok /\ now - getters[c].ai.storedAt <= cachedValidDuration)
            /\ (getters'[c].pc = "done" /\ getters[c].pc # "done" /\ getters'[c].out.err) =>
                  /\ accountDetails' = accountDetails
                  /\ accountsLastUpdate' = accountsLastUpdate ]_vars

\* a caller got the error of a failed fetch while the cache holds an entry that
\* is too old, and the entry is still there
C37_Witness ==
    \E c \in Callers :
        /\ getters[c].pc = "done" /\ getters[c].out.err /\ getters[c].out.rest
        /\ getters[c].ok /\ getters[c].out.at - getters[c].ai.storedAt > cachedValidDuration
        /\ "main" \in DOMAIN accountDetails
        /\ accountDetails["main"] = getters[c].ai
        /\ accountsLastUpdate["main"] = getters[c].update

\* C38: what AllInfo and GetOneInfo return belongs to one successful fetch: the
\* map is the ToMap of the snapshot whenever a caller reads either, the snapshot
\* is a list a fetch returned (or still empty when none succeeded), and a failed
\* fetch leaves the snapshot and the map as they were.
C38_MapMatchesSnapshot ==
    /\ [](seen.op = "AllInfo" =>
            /\ seen.allState = ToMap(seen.snapshot)
            /\ seen.snapshot \in FetchedLists)
    /\ [](seen.op = "GetOneInfo" =>
            /\ seen.ok = (seen.asset \in DOMAIN ToMap(seen.snapshot))
            /\ seen.ok => seen.ci = ToMap(seen.snapshot)[seen.asset])
    /\ [](coinLock = "free" => allState = ToMap(snapshot))
    /\ [][(updater.pc = "fetch" /\ updater'.pc = "idle") =>
             snapshot' = snapshot /\ allState' = allState]_vars

\* a caller read the snapshot that names BTC twice, and the update after it has
\* failed and left it in place
C38_Witness ==
    /\ updater.pc = "idle" /\ updater.err
    /\ snapshot = << Coin("BTC", 1), Coin("BTC", 2) >>
    /\ allState = ("BTC" :> Coin("BTC", 2))
    /\ seen.op = "GetOneInfo" /\ seen.asset = "BTC" /\ seen.ci = Coin("BTC", 2)
    /\ seen.snapshot = snapshot

\* C39: whenever the reader is back at ReadMessage the push timer is stopped and
\* its channel is empty, so no expiry is carried over to the next frame; a frame
\* is dropped only on the expiry of the timer its own Reset armed; and the
\* receive on tm.C after a Stop that returned false finds a value and goes on.
C39_NoExpiryCarriedOver ==
    /\ [](supPc \in {"read", "broken"} => ~tmActive /\ tmC = 0)
    /\ [](supPc = "drain" => ~tmActive /\ tmC = 1)
    /\ [][ /\ (supPc = "read" /\ supPc' = "select") => tmActive' /\ tmC' = 0
           /\ (dropped' # dropped) =>
                 supPc = "select" /\ ~tmActive /\ tmC = 1 /\ tmC' = 0 /\ supPc' = "read" ]_vars
    /\ (supPc = "drain") ~> (supPc = "read")

====
